---- MODULE Spec2Model ----
(***************************************************************************)
(* Model of the PII detection, fusion, triage, masking and residual        *)
(* validation pipeline of core/detection_engine.py, and of the file        *)
(* processor and command line front end that consume its results.          *)
(*                                                                         *)
(* Strings are sequences of one-character strings.  Confidences are        *)
(* hundredths (1.0 is 100, 0.35 is 35).  Positions are Python offsets      *)
(* (0-based, half open), so the character at offset p is text[p + 1].      *)
(***************************************************************************)
EXTENDS Integers, Sequences, FiniteSets, TLC

\* ------------------------------------------------------------------------
\* Characters
\* ------------------------------------------------------------------------
LowerSeq ==
    << "a", "b", "c", "d", "e", "f", "g", "h", "i", "j", "k", "l", "m",
       "n", "o", "p", "q", "r", "s", "t", "u", "v", "w", "x", "y", "z" >>

UpperSeq ==
    << "A", "B", "C", "D", "E", "F", "G", "H", "I", "J", "K", "L", "M",
       "N", "O", "P", "Q", "R", "S", "T", "U", "V", "W", "X", "Y", "Z" >>

DigitSeq == << "0", "1", "2", "3", "4", "5", "6", "7", "8", "9" >>

Range(s) == { s[i] : i \in DOMAIN s }

Lower == Range(LowerSeq)

Upper == Range(UpperSeq)

Digit == Range(DigitSeq)

Space == { " ", "\t", "\n" }

WordChar == Lower \cup Upper \cup Digit \cup { "_" }

IndexIn(s, c) == CHOOSE i \in DOMAIN s : s[i] = c

\* str.upper() on one character
UpperChar(c) == IF c \in Lower THEN UpperSeq[IndexIn(LowerSeq, c)] ELSE c

\* str.lower() on one character
LowerChar(c) == IF c \in Upper THEN LowerSeq[IndexIn(UpperSeq, c)] ELSE c

\* int(d) for a digit character
DigitVal(c) == IndexIn(DigitSeq, c) - 1

\* str.upper()
StrUpper(s) == [ i \in DOMAIN s |-> UpperChar(s[i]) ]

\* str.lower()
StrLower(s) == [ i \in DOMAIN s |-> LowerChar(s[i]) ]

\* str.isdigit(): non-empty and every character a digit
IsDigitStr(s) == Len(s) > 0 /\ \A i \in DOMAIN s : s[i] \in Digit

\* Python slice s[a:b] with 0-based offsets, clamped to the string
Slice(s, a, b) ==
    LET lo == IF a > Len(s) THEN Len(s) ELSE a
        hi == IF b > Len(s) THEN Len(s) ELSE b
    IN  IF hi <= lo THEN << >> ELSE SubSeq(s, lo + 1, hi)

\* true when sub occurs in s at 0-based offset p
OccursAt(s, sub, p) ==
    /\ p >= 0
    /\ p + Len(sub) <= Len(s)
    /\ \A i \in 1 .. Len(sub) : s[p + i] = sub[i]

\* `sub in s`
Contains(s, sub) == \E p \in 0 .. Len(s) : OccursAt(s, sub, p)

\* str.find(sub): lowest offset of an occurrence, or -1
Find(s, sub) ==
    IF Contains(s, sub)
    THEN CHOOSE p \in 0 .. Len(s) :
            /\ OccursAt(s, sub, p)
            /\ \A q \in 0 .. (p - 1) : ~OccursAt(s, sub, q)
    ELSE -1

\* str.strip(): drop leading and trailing whitespace
RECURSIVE LStrip(_)
LStrip(s) ==
    IF Len(s) > 0 /\ s[1] \in Space THEN LStrip(Tail(s)) ELSE s

RECURSIVE RStrip(_)
RStrip(s) ==
    IF Len(s) > 0 /\ s[Len(s)] \in Space
    THEN RStrip(SubSeq(s, 1, Len(s) - 1))
    ELSE s

Strip(s) == RStrip(LStrip(s))

\* ------------------------------------------------------------------------
\* Regular expressions (the subset used by the pattern table), matched the
\* way Python's backtracking `re` matches them under re.IGNORECASE.
\* ------------------------------------------------------------------------
Unbounded == 100000

Cls(S, lo, hi) == [ k |-> "cls", set |-> S, min |-> lo, max |-> hi, sub |-> << >> ]

Lit(c) == Cls({ c }, 1, 1)

WB == [ k |-> "wb", set |-> { }, min |-> 0, max |-> 0, sub |-> << >> ]

NotFollowedBy(S) == [ k |-> "nla", set |-> S, min |-> 0, max |-> 0, sub |-> << >> ]

Opt(items) == [ k |-> "opt", set |-> { }, min |-> 0, max |-> 1, sub |-> items ]

\* class membership under re.IGNORECASE
InClass(c, S) == c \in S \/ LowerChar(c) \in S \/ UpperChar(c) \in S

\* \b at offset p
IsBoundary(t, p) ==
    LET before == p > 0 /\ t[p] \in WordChar
        after  == p < Len(t) /\ t[p + 1] \in WordChar
    IN  before # after

\* number of consecutive characters of class S from offset p, at most hi
RECURSIVE RunLen(_, _, _, _)
RunLen(t, p, S, hi) ==
    IF hi > 0 /\ p < Len(t) /\ InClass(t[p + 1], S)
    THEN 1 + RunLen(t, p + 1, S, hi - 1)
    ELSE 0

\* end offset of the match of pat anchored at offset p, or -1
RECURSIVE MatchFrom(_, _, _)
RECURSIVE Greedy(_, _, _, _, _)
MatchFrom(pat, t, p) ==
    IF Len(pat) = 0 THEN p
    ELSE LET it   == Head(pat)
             rest == Tail(pat)
         IN  CASE it.k = "wb" ->
                    IF IsBoundary(t, p) THEN MatchFrom(rest, t, p) ELSE -1
               [] it.k = "nla" ->
                    IF p < Len(t) /\ InClass(t[p + 1], it.set)
                    THEN -1
                    ELSE MatchFrom(rest, t, p)
               [] it.k = "opt" ->
                    LET r == MatchFrom(it.sub \o rest, t, p)
                    IN  IF r # -1 THEN r ELSE MatchFrom(rest, t, p)
               [] OTHER ->
                    LET run == RunLen(t, p, it.set, it.max)
                    IN  IF run < it.min THEN -1
                        ELSE Greedy(it, rest, t, p, run)

Greedy(it, rest, t, p, n) ==
    LET r == MatchFrom(rest, t, p + n)
    IN  IF r # -1 THEN r
        ELSE IF n > it.min THEN Greedy(it, rest, t, p, n - 1)
        ELSE -1

\* re.finditer: leftmost, non-overlapping matches as [s, e] offset pairs
RECURSIVE FindIter(_, _, _)
FindIter(pat, t, p) ==
    IF p > Len(t) THEN << >>
    ELSE LET e == MatchFrom(pat, t, p)
         IN  IF e = -1 THEN FindIter(pat, t, p + 1)
             ELSE IF e = p THEN << [s |-> p, e |-> e] >> \o FindIter(pat, t, p + 1)
             ELSE << [s |-> p, e |-> e] >> \o FindIter(pat, t, e)

\* ------------------------------------------------------------------------
\* Entity type names (Python strings, as character sequences)
\* ------------------------------------------------------------------------
T_EMAIL == << "E", "M", "A", "I", "L" >>

T_PHONE == << "P", "H", "O", "N", "E" >>

T_SSN == << "S", "S", "N" >>

T_CREDIT_CARD == << "C", "R", "E", "D", "I", "T", "_", "C", "A", "R", "D" >>

T_IP_ADDRESS == << "I", "P", "_", "A", "D", "D", "R", "E", "S", "S" >>

T_URL == << "U", "R", "L" >>

T_DATE == << "D", "A", "T", "E" >>

T_ZIP_CODE == << "Z", "I", "P", "_", "C", "O", "D", "E" >>

T_NATIONAL_ID == << "N", "A", "T", "I", "O", "N", "A", "L", "_", "I", "D" >>

T_BANK_ACCT == << "B", "A", "N", "K", "_", "A", "C", "C", "T" >>

T_IP == << "I", "P" >>

T_PERSON == << "P", "E", "R", "S", "O", "N" >>

T_BRAND == << "B", "R", "A", "N", "D" >>

T_ADDRESS == << "A", "D", "D", "R", "E", "S", "S" >>

T_USERNAME == << "U", "S", "E", "R", "N", "A", "M", "E" >>

T_GEO == << "G", "E", "O" >>

T_ID_NUM == << "I", "D", "_", "N", "U", "M" >>

T_GREETING == << "G", "R", "E", "E", "T", "I", "N", "G" >>

T_FIELD_LABEL == << "F", "I", "E", "L", "D", "_", "L", "A", "B", "E", "L" >>

T_PRONOUN == << "P", "R", "O", "N", "O", "U", "N" >>

T_ORGANIZATION == << "O", "R", "G", "A", "N", "I", "Z", "A", "T", "I", "O", "N" >>

T_LOCATION == << "L", "O", "C", "A", "T", "I", "O", "N" >>

T_POTENTIAL_NAME == << "P", "O", "T", "E", "N", "T", "I", "A", "L", "_", "N", "A", "M", "E" >>

\* ------------------------------------------------------------------------
\* PIIDetectionEngine.__init__: pattern table, validators, type classes
\* ------------------------------------------------------------------------
Letter == Lower \cup Upper

D(lo, hi) == Cls(Digit, lo, hi)

EMAIL_RE ==
    << WB, Cls(Letter \cup Digit \cup { ".", "_", "%", "+", "-" }, 1, Unbounded),
       Lit("@"), Cls(Letter \cup Digit \cup { ".", "-" }, 1, Unbounded),
       Lit("."), Cls(Letter \cup { "|" }, 2, Unbounded), WB >>

PHONE_RE ==
    << WB, Cls({ "(" }, 0, 1), D(3, 3), Cls({ ")" }, 0, 1),
       Cls({ "-", "." } \cup Space, 0, 1), D(3, 3),
       Cls({ "-", "." } \cup Space, 0, 1), D(4, 4), WB, NotFollowedBy(Digit) >>

SSN_RE == << WB, D(3, 3), Lit("-"), D(2, 2), Lit("-"), D(4, 4), WB >>

CREDIT_CARD_RE ==
    << WB, D(4, 4), Cls({ "-" } \cup Space, 0, 1), D(4, 4),
       Cls({ "-" } \cup Space, 0, 1), D(4, 4),
       Cls({ "-" } \cup Space, 0, 1), D(4, 4), WB >>

IP_ADDRESS_RE ==
    << WB, D(1, 3), Lit("."), D(1, 3), Lit("."), D(1, 3), Lit("."), D(1, 3), WB >>

URL_RE ==
    << Lit("h"), Lit("t"), Lit("t"), Lit("p"), Cls({ "s" }, 0, 1),
       Lit(":"), Lit("/"), Lit("/"),
       Cls(WordChar \cup { "-", "." }, 1, Unbounded),
       Opt(<< Cls(Digit \cup { ":" }, 1, Unbounded) >>),
       Opt(<< Lit("/"), Cls(WordChar \cup { "/", "." }, 0, Unbounded),
              Opt(<< Lit("?"), Cls(WordChar \cup { "&", "=", "%", "." }, 0, Unbounded) >>),
              Opt(<< Lit("#"), Cls(WordChar \cup { "." }, 0, Unbounded) >>) >>) >>

DATE_RE ==
    << WB, D(1, 2), Cls({ "/", "-" }, 1, 1), D(1, 2), Cls({ "/", "-" }, 1, 1),
       D(2, 4), WB >>

ZIP_CODE_RE == << WB, D(5, 5), Opt(<< Lit("-"), D(4, 4) >>), WB >>

\* self.patterns, in dictionary (insertion) order
patterns ==
    << [entity_type |-> T_EMAIL,       pattern |-> EMAIL_RE],
       [entity_type |-> T_PHONE,       pattern |-> PHONE_RE],
       [entity_type |-> T_SSN,         pattern |-> SSN_RE],
       [entity_type |-> T_CREDIT_CARD, pattern |-> CREDIT_CARD_RE],
       [entity_type |-> T_IP_ADDRESS,  pattern |-> IP_ADDRESS_RE],
       [entity_type |-> T_URL,         pattern |-> URL_RE],
       [entity_type |-> T_DATE,        pattern |-> DATE_RE],
       [entity_type |-> T_ZIP_CODE,    pattern |-> ZIP_CODE_RE] >>

structured_entities ==
    { T_EMAIL, T_CREDIT_CARD, T_PHONE, T_IP_ADDRESS, T_SSN, T_NATIONAL_ID,
      T_BANK_ACCT, T_IP }

free_text_entities == { T_PERSON, T_BRAND, T_ADDRESS, T_USERNAME, T_GEO }

\* ------------------------------------------------------------------------
\* Validators
\* ------------------------------------------------------------------------
\* [int(d) for d in str(number) if d.isdigit()]
RECURSIVE DigitsOf(_)
DigitsOf(s) ==
    IF Len(s) = 0 THEN << >>
    ELSE IF Head(s) \in Digit
         THEN << DigitVal(Head(s)) >> \o DigitsOf(Tail(s))
         ELSE DigitsOf(Tail(s))

\* Luhn sum over reversed(digits), i counted from the last digit (i = 0)
RECURSIVE LuhnSum(_, _)
LuhnSum(digits, i) ==
    IF i >= Len(digits) THEN 0
    ELSE LET digit   == digits[Len(digits) - i]
             doubled == digit * 2
             term    == IF i % 2 = 1
                        THEN (IF doubled < 10 THEN doubled ELSE doubled - 9)
                        ELSE digit
         IN  term + LuhnSum(digits, i + 1)

\* a validator that tests the number of digits only
LuhnLengthOnly(number) ==
    Len(DigitsOf(number)) >= 13 /\ Len(DigitsOf(number)) <= 19

_luhn_check(number) ==
    LET digits == DigitsOf(number)
    IN  IF Len(digits) < 13 \/ Len(digits) > 19 THEN FALSE
        ELSE LuhnSum(digits, 0) % 10 = 0

\* str.split(sep) for a one-character separator
RECURSIVE Split(_, _, _)
Split(s, sep, cur) ==
    IF Len(s) = 0 THEN << cur >>
    ELSE IF Head(s) = sep
         THEN << cur >> \o Split(Tail(s), sep, << >>)
         ELSE Split(Tail(s), sep, Append(cur, Head(s)))

\* int(part) for a string of digits
RECURSIVE IntOf(_)
IntOf(s) ==
    IF Len(s) = 0 THEN 0
    ELSE 10 * IntOf(SubSeq(s, 1, Len(s) - 1)) + DigitVal(s[Len(s)])

_validate_ip(ip) ==
    LET parts == Split(ip, ".", << >>)
    IN  IF Len(parts) # 4 THEN FALSE
        ELSE \A i \in 1 .. 4 :
                /\ IsDigitStr(parts[i])
                /\ IntOf(parts[i]) >= 0
                /\ IntOf(parts[i]) <= 255

\* str.replace('-', '')
RECURSIVE RemoveChar(_, _)
RemoveChar(s, c) ==
    IF Len(s) = 0 THEN << >>
    ELSE IF Head(s) = c THEN RemoveChar(Tail(s), c)
         ELSE << Head(s) >> \o RemoveChar(Tail(s), c)

StartsWith(s, pre) == OccursAt(s, pre, 0)

_validate_ssn(ssn) ==
    LET clean_ssn == RemoveChar(ssn, "-")
    IN  IF Len(clean_ssn) # 9 THEN FALSE
        ELSE IF \/ StartsWith(clean_ssn, << "0", "0", "0" >>)
                \/ StartsWith(clean_ssn, << "6", "6", "6" >>)
                \/ StartsWith(clean_ssn, << "9" >>)
             THEN FALSE
        ELSE IF \/ Slice(clean_ssn, 3, 5) = << "0", "0" >>
                \/ Slice(clean_ssn, 5, 9) = << "0", "0", "0", "0" >>
             THEN FALSE
        ELSE TRUE

\* a table of validators that accepts every match
ValidatorsAcceptAll(entity_type, value) == TRUE

\* self.validators: TRUE when the type has no validator or the value passes
validators(entity_type, value) ==
    CASE entity_type = T_CREDIT_CARD -> _luhn_check(value)
      [] entity_type = T_IP_ADDRESS  -> _validate_ip(value)
      [] entity_type = T_SSN         -> _validate_ssn(value)
      [] OTHER -> TRUE

\* ------------------------------------------------------------------------
\* PIIEntity and the Pattern Detector
\* ------------------------------------------------------------------------
PIIEntity(entity_type, value, start_pos, end_pos, confidence, detection_method, status) ==
    [ entity_type      |-> entity_type,
      value            |-> value,
      start_pos        |-> start_pos,
      end_pos          |-> end_pos,
      confidence       |-> confidence,
      detection_method |-> detection_method,
      status           |-> status ]

\* the matches of one pattern that pass validation, as entities
RECURSIVE RuleEntitiesOf(_, _, _, _, _)
RuleEntitiesOf(entity_type, matches, text, method, status) ==
    IF Len(matches) = 0 THEN << >>
    ELSE LET match == Head(matches)
             value == Slice(text, match.s, match.e)
         IN  IF ~validators(entity_type, value)
             THEN RuleEntitiesOf(entity_type, Tail(matches), text, method, status)
             ELSE << PIIEntity(entity_type, value, match.s, match.e, 100,
                               method, status) >>
                  \o RuleEntitiesOf(entity_type, Tail(matches), text, method, status)

RECURSIVE DetectRuleFrom(_, _)
DetectRuleFrom(k, text) ==
    IF k > Len(patterns) THEN << >>
    ELSE RuleEntitiesOf(patterns[k].entity_type,
                        FindIter(patterns[k].pattern, text, 0),
                        text, "rule_based", "auto_masked")
         \o DetectRuleFrom(k + 1, text)

_detect_rule_based(text) == DetectRuleFrom(1, text)

\* ------------------------------------------------------------------------
\* Fusion and resolution
\* ------------------------------------------------------------------------
\* list.sort(key=start_pos): stable insertion into an ascending list
RECURSIVE InsertAsc(_, _)
InsertAsc(sorted, x) ==
    IF Len(sorted) = 0 THEN << x >>
    ELSE IF sorted[Len(sorted)].start_pos <= x.start_pos
         THEN Append(sorted, x)
         ELSE Append(InsertAsc(SubSeq(sorted, 1, Len(sorted) - 1), x),
                     sorted[Len(sorted)])

RECURSIVE SortAsc(_)
SortAsc(list) ==
    IF Len(list) = 0 THEN << >>
    ELSE InsertAsc(SortAsc(SubSeq(list, 1, Len(list) - 1)), list[Len(list)])

\* the sort taken without reverse=True
SortWithoutReverse(list) == SortAsc(list)

\* list.sort(key=start_pos, reverse=True): stable, equal keys keep their order
RECURSIVE InsertDesc(_, _)
InsertDesc(sorted, x) ==
    IF Len(sorted) = 0 THEN << x >>
    ELSE IF sorted[Len(sorted)].start_pos >= x.start_pos
         THEN Append(sorted, x)
         ELSE Append(InsertDesc(SubSeq(sorted, 1, Len(sorted) - 1), x),
                     sorted[Len(sorted)])

RECURSIVE SortDesc(_)
SortDesc(list) ==
    IF Len(list) = 0 THEN << >>
    ELSE InsertDesc(SortDesc(SubSeq(list, 1, Len(list) - 1)), list[Len(list)])

\* an overlap test that sees only entities starting at the same offset
OverlapsAtSameStart(entity, existing) == entity.start_pos = existing.start_pos

\* the overlap test of the fusion loop
Overlaps(entity, existing) ==
    /\ entity.start_pos < existing.end_pos
    /\ entity.end_pos > existing.start_pos

\* index of the first entity of resolved that overlaps entity, or 0
FirstOverlap(resolved, entity) ==
    IF \E j \in DOMAIN resolved : Overlaps(entity, resolved[j])
    THEN CHOOSE j \in DOMAIN resolved :
            /\ Overlaps(entity, resolved[j])
            /\ \A i \in 1 .. (j - 1) : ~Overlaps(entity, resolved[i])
    ELSE 0

\* list.remove(x): drop the first element equal to x
ListRemove(list, x) ==
    LET j == CHOOSE i \in DOMAIN list :
                 list[i] = x /\ \A h \in 1 .. (i - 1) : list[h] # x
    IN  SubSeq(list, 1, j - 1) \o SubSeq(list, j + 1, Len(list))

\* the candidate is appended while the entity it displaces stays in the list
ReplaceKeepingExisting(resolved, existing, entity) == Append(resolved, entity)

\* the winner is put at the head of the list
ReplaceAtHead(resolved, existing, entity) == << entity >> \o ListRemove(resolved, existing)

\* resolved.remove(existing); resolved.append(entity)
Replace(resolved, existing, entity) == Append(ListRemove(resolved, existing), entity)

\* the later candidate displaces the entity it overlaps whatever their methods
PrefersLater(entity, existing) == TRUE

\* a rule-based candidate displaces a rule-based entity of equal confidence too
PrefersOnTie(entity, existing) ==
    IF /\ entity.detection_method = "rule_based"
       /\ existing.detection_method # "rule_based"
    THEN TRUE
    ELSE IF /\ entity.detection_method = "rule_based"
            /\ existing.detection_method = "rule_based"
         THEN entity.confidence >= existing.confidence
         ELSE FALSE

\* the conditions under which the candidate displaces the entity it overlaps
Prefers(entity, existing) ==
    IF /\ entity.detection_method = "rule_based"
       /\ existing.detection_method # "rule_based"
    THEN TRUE
    ELSE IF /\ entity.detection_method = "rule_based"
            /\ existing.detection_method = "rule_based"
         THEN entity.confidence > existing.confidence
         ELSE FALSE

\* one iteration of the loop over all_entities
FuseStep(resolved, entity) ==
    LET j == FirstOverlap(resolved, entity)
    IN  IF j = 0 THEN Append(resolved, entity)
        ELSE IF Prefers(entity, resolved[j])
             THEN Replace(resolved, resolved[j], entity)
             ELSE resolved

\* resolved after the first k candidates of the sorted list
RECURSIVE ResolvedAfter(_, _)
ResolvedAfter(all_entities, k) ==
    IF k = 0 THEN << >>
    ELSE FuseStep(ResolvedAfter(all_entities, k - 1), all_entities[k])

_fuse_and_resolve_entities(rule_entities, ml_entities) ==
    LET all_entities == rule_entities \o ml_entities
    IN  IF Len(all_entities) = 0 THEN << >>
        ELSE ResolvedAfter(SortAsc(all_entities), Len(all_entities))

\* ------------------------------------------------------------------------
\* Confidence triage
\* ------------------------------------------------------------------------
\* the band taken without its upper end
MarkedBelowUpper(entities, cfg) ==
    [ i \in DOMAIN entities |->
        IF /\ cfg.min_confidence <= entities[i].confidence
           /\ entities[i].confidence < cfg.questionable_band_hi
        THEN [ entities[i] EXCEPT !.status = "questionable" ]
        ELSE entities[i] ]

\* the entity list after the in-place status updates
MarkedEntities(entities, cfg) ==
    [ i \in DOMAIN entities |->
        IF /\ cfg.min_confidence <= entities[i].confidence
           /\ entities[i].confidence <= cfg.questionable_band_hi
        THEN [ entities[i] EXCEPT !.status = "questionable" ]
        ELSE entities[i] ]

RECURSIVE SelectQuestionable(_, _)
SelectQuestionable(entities, cfg) ==
    IF Len(entities) = 0 THEN << >>
    ELSE IF /\ cfg.min_confidence <= Head(entities).confidence
            /\ Head(entities).confidence <= cfg.questionable_band_hi
         THEN << [ Head(entities) EXCEPT !.status = "questionable" ] >>
              \o SelectQuestionable(Tail(entities), cfg)
         ELSE SelectQuestionable(Tail(entities), cfg)

\* triage that also drops the entities below min_confidence from the list
MarkAndDropBelowMin(entities, cfg) ==
    [ questionable |-> SelectQuestionable(entities, cfg),
      entities     |-> SelectSeq(MarkedEntities(entities, cfg),
                           LAMBDA e : e.confidence >= cfg.min_confidence) ]

\* returns the questionable list and the (mutated) entity list
_mark_questionable_entities(entities, cfg) ==
    [ questionable |-> SelectQuestionable(entities, cfg),
      entities     |-> MarkedEntities(entities, cfg) ]

\* ------------------------------------------------------------------------
\* Masking
\* ------------------------------------------------------------------------
\* decimal digits of n >= 0
RECURSIVE DigitsStr(_)
DigitsStr(n) ==
    IF n < 10 THEN << DigitSeq[n + 1] >>
    ELSE Append(DigitsStr(n \div 10), DigitSeq[(n % 10) + 1])

\* format(n, "03d")
RECURSIVE PadLeft(_, _)
PadLeft(s, width) == IF Len(s) >= width THEN s ELSE PadLeft(<< "0" >> \o s, width)

Format03d(n) == PadLeft(DigitsStr(n), 3)

\* f"[{entity_type.upper()}_{n:03d}]"
Token(entity_type, n) ==
    << "[" >> \o StrUpper(entity_type) \o << "_" >> \o Format03d(n) \o << "]" >>

\* '*' * n
Stars(n) == [ i \in 1 .. n |-> "*" ]

\* the partial reveal taken without the test on the value's length
MaskWithoutLengthTest(entity, n, cfg) ==
    IF entity.entity_type \in structured_entities
    THEN Token(entity.entity_type, n)
    ELSE IF entity.entity_type \in free_text_entities
            /\ cfg.mask_format = "PARTIAL_REVEAL"
            /\ Len(entity.value) > 0
         THEN << entity.value[1] >> \o Stars(Len(entity.value) - 1)
         ELSE Token(entity.entity_type, n)

\* the mask format decides before the type class does
MaskByFormatFirst(entity, n, cfg) ==
    IF cfg.mask_format = "PARTIAL_REVEAL"
    THEN IF Len(entity.value) > 1
         THEN << entity.value[1] >> \o Stars(Len(entity.value) - 1)
         ELSE << "*" >>
    ELSE Token(entity.entity_type, n)

\* the mask of one entity, n being the running counter of its type
MaskFor(entity, n, cfg) ==
    IF entity.entity_type \in structured_entities
    THEN Token(entity.entity_type, n)
    ELSE IF entity.entity_type \in free_text_entities
         THEN IF cfg.mask_format = "PARTIAL_REVEAL"
              THEN IF Len(entity.value) > 1
                   THEN << entity.value[1] >> \o Stars(Len(entity.value) - 1)
                   ELSE << "*" >>
              ELSE Token(entity.entity_type, n)
         ELSE Token(entity.entity_type, n)

\* token_counter[entity_type] when the k-th entity of the list is masked
CounterAt(entities, k) ==
    Cardinality({ i \in 1 .. k : entities[i].entity_type = entities[k].entity_type })

\* masked_text after the first k entities of the (descending) list
RECURSIVE MaskedAfter(_, _, _, _)
MaskedAfter(text, entities, k, cfg) ==
    IF k = 0 THEN text
    ELSE LET masked_text == MaskedAfter(text, entities, k - 1, cfg)
             entity      == entities[k]
             mask        == MaskFor(entity, CounterAt(entities, k), cfg)
         IN  Slice(masked_text, 0, entity.start_pos)
             \o mask
             \o Slice(masked_text, entity.end_pos, Len(masked_text))

\* returns the masked text and the (sorted in place) entity list
_mask_text(text, entities, cfg) ==
    IF Len(entities) = 0
    THEN [ masked_text |-> text, entities |-> entities ]
    ELSE LET sorted == SortDesc(entities)
         IN  [ masked_text |-> MaskedAfter(text, sorted, Len(sorted), cfg),
               entities    |-> sorted ]

\* ------------------------------------------------------------------------
\* Residual validation
\* ------------------------------------------------------------------------
\* every match is reported, validated or not
ResidualAcceptsAll(entity_type, value) == TRUE

\* a match is skipped when its type has a validator and the validator fails
ResidualAccepts(entity_type, value) == validators(entity_type, value)

RECURSIVE ResidualFrom(_, _)
ResidualFrom(k, masked_text) ==
    IF k > Len(patterns) THEN << >>
    ELSE LET matches == FindIter(patterns[k].pattern, masked_text, 0)
             kept    == SelectSeq(matches,
                            LAMBDA m : ResidualAccepts(patterns[k].entity_type,
                                                       Slice(masked_text, m.s, m.e)))
         IN  [ i \in DOMAIN kept |->
                 PIIEntity(patterns[k].entity_type,
                           Slice(masked_text, kept[i].s, kept[i].e),
                           kept[i].s, kept[i].e, 100,
                           "residual_validation", "residual") ]
             \o ResidualFrom(k + 1, masked_text)

_validate_residual_pii(masked_text) == ResidualFrom(1, masked_text)

\* ------------------------------------------------------------------------
\* Model detector
\* ------------------------------------------------------------------------
L_LABEL_0 == << "L", "A", "B", "E", "L", "_", "0" >>

L_LABEL_1 == << "L", "A", "B", "E", "L", "_", "1" >>

L_LABEL_2 == << "L", "A", "B", "E", "L", "_", "2" >>

L_LABEL_3 == << "L", "A", "B", "E", "L", "_", "3" >>

L_LABEL_4 == << "L", "A", "B", "E", "L", "_", "4" >>

L_LABEL_5 == << "L", "A", "B", "E", "L", "_", "5" >>

L_LABEL_6 == << "L", "A", "B", "E", "L", "_", "6" >>

L_LABEL_7 == << "L", "A", "B", "E", "L", "_", "7" >>

L_LABEL_8 == << "L", "A", "B", "E", "L", "_", "8" >>

L_LABEL_9 == << "L", "A", "B", "E", "L", "_", "9" >>

L_LABEL_10 == << "L", "A", "B", "E", "L", "_", "1", "0" >>

L_LABEL_11 == << "L", "A", "B", "E", "L", "_", "1", "1" >>

L_LABEL_12 == << "L", "A", "B", "E", "L", "_", "1", "2" >>

\* label_mapping.get(label); << >> stands for None
_map_ml_label_to_pii_type(label) ==
    CASE
         label = L_LABEL_0 -> T_EMAIL
      [] label = L_LABEL_1 -> T_ID_NUM
      [] label = L_LABEL_2 -> T_PERSON
      [] label = L_LABEL_3 -> T_PERSON
      [] label = L_LABEL_4 -> T_PERSON
      [] label = L_LABEL_5 -> T_PERSON
      [] label = L_LABEL_6 -> T_USERNAME
      [] label = L_LABEL_7 -> T_PERSON
      [] label = L_LABEL_8 -> T_PERSON
      [] label = L_LABEL_9 -> T_PHONE
      [] label = L_LABEL_10 -> T_ADDRESS
      [] label = L_LABEL_11 -> T_PERSON
      [] label = L_LABEL_12 -> T_URL
      [] OTHER -> << >>

W_hello == << "h", "e", "l", "l", "o" >>

W_hi == << "h", "i" >>

W_hey == << "h", "e", "y" >>

W_email == << "e", "m", "a", "i", "l" >>

W_phone == << "p", "h", "o", "n", "e" >>

W_address == << "a", "d", "d", "r", "e", "s", "s" >>

W_name == << "n", "a", "m", "e" >>

W_my == << "m", "y" >>

W_i == << "i" >>

W_me == << "m", "e" >>

_improve_entity_classification(entity) ==
    LET value == Strip(StrLower(entity.value))
    IN  IF "@" \in Range(value) /\ "." \in Range(value)
        THEN [ entity EXCEPT !.entity_type = T_EMAIL ]
        ELSE IF IsDigitStr(value) /\ Len(value) >= 4
        THEN [ entity EXCEPT !.entity_type = T_ID_NUM ]
        ELSE IF value \in { W_hello, W_hi, W_hey }
        THEN [ entity EXCEPT !.entity_type = T_GREETING ]
        ELSE IF value \in { W_email, W_phone, W_address, W_name }
        THEN [ entity EXCEPT !.entity_type = T_FIELD_LABEL ]
        ELSE IF value \in { W_my, W_i, W_me }
        THEN [ entity EXCEPT !.entity_type = T_PRONOUN ]
        ELSE entity

\* the entities _filter_ml_entities keeps
KeptByFilter(entity) ==
    LET v == Strip(entity.value)
    IN  /\ ~(Len(v) <= 1)
        /\ v \notin { << "," >>, << "." >>, << ":" >>, << ";" >>, << "!" >>,
                      << "?" >>, << " " >>, << "\n" >>, << "\t" >> }
        /\ ~(Len(v) < 2)
        /\ ~(IsDigitStr(v) /\ Len(v) < 4)

_filter_ml_entities(entities) == SelectSeq(entities, KeptByFilter)

\* --- environment of the model detector ----------------------------------
\* What a backend hands back is outside the repository's control, and so is
\* the point at which it fails.  A fault names the stage that raises and,
\* for the two loops of _detect_ml, how many items were handled before.
NoFault == [ stage |-> "none", at |-> 0 ]

Fault(stage, at) == [ stage |-> stage, at |-> at ]

\* list(pii_dict.items()) flattened to (label, value) pairs, in order
PiiPair(label, value) == [ label |-> label, value |-> value ]

\* --- LongTransformer backend (lines 196-230) ----------------------------
\* the conversion loop over the first n pairs
RECURSIVE ConvertLongTransformer(_, _, _)
ConvertLongTransformer(text, pii, n) ==
    IF n = 0 THEN << >>
    ELSE LET prev        == ConvertLongTransformer(text, pii, n - 1)
             value       == pii[n].value
             start_pos   == Find(text, value)
             mapped_type == _map_ml_label_to_pii_type(pii[n].label)
         IN  IF start_pos # -1 /\ mapped_type # << >>
             THEN Append(prev, PIIEntity(mapped_type, value, start_pos,
                                         start_pos + Len(value), 85,
                                         "longtransformer_pii", "auto_masked"))
             ELSE prev

\* the reclassification loop having handled the first n entities in place
ReclassifyFirst(entities, n) ==
    [ i \in DOMAIN entities |->
        IF i <= n THEN _improve_entity_classification(entities[i])
        ELSE entities[i] ]

NonPII == { T_GREETING, T_FIELD_LABEL, T_PRONOUN }

DropNonPII(entities) == SelectSeq(entities, LAMBDA e : e.entity_type \notin NonPII)

\* --- custom PII model backend (lines 233-253) ---------------------------
RECURSIVE ConvertCustom(_, _, _)
ConvertCustom(text, pii, n) ==
    IF n = 0 THEN << >>
    ELSE LET prev      == ConvertCustom(text, pii, n - 1)
             value     == pii[n].value
             start_pos == Find(text, value)
         IN  IF start_pos # -1
             THEN Append(prev, PIIEntity(StrUpper(pii[n].label), value, start_pos,
                                         start_pos + Len(value), 80,
                                         "custom_pii_model", "auto_masked"))
             ELSE prev

\* --- BERT NER backend ---------------------------------------------------
BLabels == { "B-PER", "B-ORG", "B-LOC", "B-MISC" }

ILabels == { "I-PER", "I-ORG", "I-LOC", "I-MISC" }

\* label_mapping.get(label, 'UNKNOWN'); << >> stands for 'UNKNOWN'
BertLabelMapping(label) ==
    CASE label \in { "B-PER", "I-PER" } -> T_PERSON
      [] label \in { "B-ORG", "I-ORG" } -> T_ORGANIZATION
      [] label \in { "B-LOC", "I-LOC" } -> T_LOCATION
      [] OTHER -> << >>

\* token.replace('##', '')
RECURSIVE RemoveHashes(_)
RemoveHashes(s) ==
    IF Len(s) = 0 THEN << >>
    ELSE IF Len(s) >= 2 /\ s[1] = "#" /\ s[2] = "#"
         THEN RemoveHashes(SubSeq(s, 3, Len(s)))
         ELSE << Head(s) >> \o RemoveHashes(Tail(s))

\* the NER entity given a confidence inside the default band
BertEntityMidConfidence(st) ==
    PIIEntity(st.current_entity, Strip(st.current_value), st.current_start,
              st.current_start + Len(st.current_value), 50, "bert_ner",
              "auto_masked")

BertEntity(st) ==
    PIIEntity(st.current_entity, Strip(st.current_value), st.current_start,
              st.current_start + Len(st.current_value), 80, "bert_ner",
              "auto_masked")

\* loop state after the first n (token, prediction) pairs; i = n - 1
RECURSIVE BertLoop(_, _)
BertLoop(tagged, n) ==
    IF n = 0
    THEN [ entities |-> << >>, current_entity |-> << >>,
           current_value |-> << >>, current_start |-> 0 ]
    ELSE LET st    == BertLoop(tagged, n - 1)
             token == tagged[n].token
             label == tagged[n].label
         IN  IF label \in BLabels
             THEN LET saved == IF st.current_entity # << >>
                               THEN Append(st.entities, BertEntity(st))
                               ELSE st.entities
                      entity_type == BertLabelMapping(label)
                  IN  IF entity_type # << >>
                      THEN [ entities |-> saved, current_entity |-> entity_type,
                             current_value |-> RemoveHashes(token),
                             current_start |-> n - 1 ]
                      ELSE [ st EXCEPT !.entities = saved ]
             ELSE IF label \in ILabels /\ st.current_entity # << >>
             THEN [ st EXCEPT !.current_value = @ \o << " " >> \o RemoveHashes(token) ]
             ELSE IF label = "O" /\ st.current_entity # << >>
             THEN [ entities |-> Append(st.entities, BertEntity(st)),
                    current_entity |-> << >>, current_value |-> << >>,
                    current_start |-> st.current_start ]
             ELSE st

_detect_with_bert_ner(tagged) == BertLoop(tagged, Len(tagged)).entities

\* --- base DeBERTa heuristic ---------------------------------------------
\* str.split(): maximal runs of non-whitespace characters
RECURSIVE SplitWords(_, _)
SplitWords(s, cur) ==
    IF Len(s) = 0 THEN (IF Len(cur) = 0 THEN << >> ELSE << cur >>)
    ELSE IF Head(s) \in Space
         THEN (IF Len(cur) = 0 THEN << >> ELSE << cur >>) \o SplitWords(Tail(s), << >>)
         ELSE SplitWords(Tail(s), Append(cur, Head(s)))

common_words ==
    { << "T", "h", "e" >>,
      << "T", "h", "i", "s" >>,
      << "T", "h", "a", "t" >>,
      << "T", "h", "e", "s", "e" >>,
      << "T", "h", "o", "s", "e" >>,
      << "A", "n", "d" >>,
      << "O", "r" >>,
      << "B", "u", "t" >>,
      << "I", "n" >>,
      << "O", "n" >>,
      << "A", "t" >>,
      << "T", "o" >>,
      << "F", "o", "r" >>,
      << "O", "f" >>,
      << "W", "i", "t", "h" >>,
      << "B", "y" >> }

IsNameLike(word) ==
    /\ word[1] \in Upper
    /\ Len(word) > 2
    /\ word[Len(word)] # "."
    /\ word[Len(word)] # ","
    /\ ~ \E i \in DOMAIN word : word[i] \in Digit
    /\ word \notin common_words

RECURSIVE DebertaFrom(_, _)
DebertaFrom(text, words) ==
    IF Len(words) = 0 THEN << >>
    ELSE LET word      == Head(words)
             start_pos == Find(text, word)
         IN  IF IsNameLike(word)
             THEN << PIIEntity(T_POTENTIAL_NAME, word, start_pos,
                               start_pos + Len(word), 30,
                               "base_deberta_heuristic", "auto_masked") >>
                  \o DebertaFrom(text, Tail(words))
             ELSE DebertaFrom(text, Tail(words))

_detect_with_base_deberta(text) == DebertaFrom(text, SplitWords(text, << >>))

\* --- _detect_ml ----------------------------------------------------------
\* backend is the one detector handle that __init__ left set ("none" when
\* every load failed); raw is what that backend computes for the text: the
\* pii pairs of mask_pii, or the tagged tokens of the NER model.
_detect_ml(text, backend, raw, fault) ==
    CASE backend = "longtransformer" ->
           IF fault.stage = "ml_infer" THEN << >>
           ELSE IF fault.stage = "ml_convert"
           THEN ConvertLongTransformer(text, raw, fault.at)
           ELSE LET converted == ConvertLongTransformer(text, raw, Len(raw))
                    filtered  == _filter_ml_entities(converted)
                IN  IF fault.stage = "ml_filter" THEN converted
                    ELSE IF fault.stage = "ml_reclassify"
                    THEN ReclassifyFirst(filtered, fault.at)
                    ELSE DropNonPII(ReclassifyFirst(filtered, Len(filtered)))
      [] backend = "custom" ->
           IF fault.stage = "ml_infer" THEN << >>
           ELSE IF fault.stage = "ml_convert"
           THEN ConvertCustom(text, raw, fault.at)
           ELSE ConvertCustom(text, raw, Len(raw))
      [] backend = "bert" ->
           IF fault.stage = "ml_infer" THEN << >>
           ELSE _detect_with_bert_ner(raw)
      [] backend = "deberta" ->
           IF fault.stage = "ml_infer" THEN << >>
           ELSE _detect_with_base_deberta(text)
      [] OTHER -> << >>

\* ------------------------------------------------------------------------
\* detect_pii
\* ------------------------------------------------------------------------
\* the stages of detect_pii that run outside any try block
FatalStages == { "rule", "fuse", "triage", "mask", "residual" }

Raised(text) ==
    [ raised |-> TRUE, original_text |-> text, rule_entities |-> << >>,
      ml_entities |-> << >>, fused |-> << >>, triaged |-> << >>,
      entities_found |-> << >>,
      questionable_entities |-> << >>, masked_content |-> << >>,
      residual_entities |-> << >> ]

\* The DetectionResult, with the intermediate lists of the call kept beside
\* it: rule_entities, ml_entities, fused (the list fusion returned) and
\* triaged (the same list object after triage, before masking sorted it).
detect_pii(text, cfg, backend, raw, fault) ==
    IF fault.stage \in FatalStages THEN Raised(text)
    ELSE LET rule_entities == _detect_rule_based(text)
             ml_entities   == _detect_ml(text, backend, raw, fault)
             all_entities  == _fuse_and_resolve_entities(rule_entities, ml_entities)
             triage        == _mark_questionable_entities(all_entities, cfg)
             masking       == _mask_text(text, triage.entities, cfg)
             residual      == _validate_residual_pii(masking.masked_text)
         IN  [ raised                |-> FALSE,
               original_text         |-> text,
               rule_entities         |-> rule_entities,
               ml_entities           |-> ml_entities,
               fused                 |-> all_entities,
               triaged               |-> triage.entities,
               entities_found        |-> masking.entities,
               questionable_entities |-> triage.questionable,
               masked_content        |-> masking.masked_text,
               residual_entities     |-> residual ]

\* ------------------------------------------------------------------------
\* FileProcessor.process_file (text files, and the two ways it fails)
\* ------------------------------------------------------------------------
DefaultChunkSize == 50000

\* _read_file_chunks: successive reads of chunk_size characters
RECURSIVE _read_file_chunks(_, _)
_read_file_chunks(content, chunk_size) ==
    IF Len(content) = 0 THEN << >>
    ELSE << Slice(content, 0, chunk_size) >>
         \o _read_file_chunks(Slice(content, chunk_size, Len(content)), chunk_size)

\* the text units detect_pii is called on: _process_text_file picks
\* streaming for a file larger than chunk_size (enable_streaming is True)
TextUnits(content, chunk_size) ==
    IF Len(content) > chunk_size
    THEN _read_file_chunks(content, chunk_size)
    ELSE << content >>

RECURSIVE ConcatMasked(_)
ConcatMasked(units) ==
    IF Len(units) = 0 THEN << >>
    ELSE Head(units).masked_content \o ConcatMasked(Tail(units))

RECURSIVE ConcatEntities(_)
ConcatEntities(units) ==
    IF Len(units) = 0 THEN << >>
    ELSE Head(units).entities_found \o ConcatEntities(Tail(units))

MSG_IMAGE_ONLY ==
    "Error processing PDF file: Image-only PDF detected - cannot process text content"

MSG_TEXT_ERROR == "Error processing text file: detect_pii raised"

\* ProcessingResult; units lists the DetectionResult of every detect_pii
\* call the processor made (the processor drops them once it has taken
\* masked_content and entities_found out of each).
ProcessingOk(units) ==
    [ kind |-> "result", errors |-> << >>,
      masked_content |-> ConcatMasked(units),
      entities_found |-> ConcatEntities(units),
      questionable_entities |-> << >>,
      residual_entities |-> << >>,
      units |-> units ]

ProcessingError(msg, units) ==
    [ kind |-> "result", errors |-> << msg >>,
      masked_content |-> << >>, entities_found |-> << >>,
      questionable_entities |-> << >>, residual_entities |-> << >>,
      units |-> units ]

ProcessingRaised(msg) ==
    [ kind |-> "raised", errors |-> << msg >>,
      masked_content |-> << >>, entities_found |-> << >>,
      questionable_entities |-> << >>, residual_entities |-> << >>,
      units |-> << >> ]

\* raws[i] is the backend's output on unit i; fault_unit is the unit whose
\* detect_pii call raises (0 for none)
process_file(file, cfg, backend, chunk, raws, fault_unit) ==
    IF file.kind = "missing" THEN ProcessingRaised("File not found")
    ELSE IF file.kind = "image_pdf" THEN ProcessingError(MSG_IMAGE_ONLY, << >>)
    ELSE LET texts == TextUnits(file.content, chunk)
             units == [ i \in DOMAIN texts |->
                          detect_pii(texts[i], cfg, backend, raws[i],
                                     IF i = fault_unit THEN Fault("rule", 0)
                                     ELSE NoFault) ]
         IN  IF \E i \in DOMAIN units : units[i].raised
             THEN ProcessingError(MSG_TEXT_ERROR,
                                  SubSeq(units, 1, fault_unit))
             ELSE ProcessingOk(units)

\* ------------------------------------------------------------------------
\* CloakAndStyleCLI
\* ------------------------------------------------------------------------
EXIT_SUCCESS == 0

EXIT_POLICY_VIOLATION == 2

EXIT_FATAL_ERROR == 3

\* the dict process_single_file returns, with what it did beside it:
\* fatal (an entry was added to fatal_errors) and written (the masked file
\* modify_file wrote, when it wrote one)
process_single_file(file, dry_run, processed) ==
    IF processed.kind = "raised"
    THEN [ file_path |-> file, status |-> "fatal_error", errors |-> processed.errors,
           entities_found |-> 0, questionable_entities |-> 0,
           residual_entities |-> 0, fatal |-> TRUE,
           written |-> FALSE, output |-> << >> ]
    ELSE IF Len(processed.errors) > 0
    THEN [ file_path |-> file, status |-> "error", errors |-> processed.errors,
           entities_found |-> 0, questionable_entities |-> 0,
           residual_entities |-> 0, fatal |-> FALSE,
           written |-> FALSE, output |-> << >> ]
    ELSE [ file_path |-> file,
           status |-> IF dry_run THEN "dry_run" ELSE "success",
           errors |-> << >>,
           entities_found |-> Len(processed.entities_found),
           questionable_entities |-> Len(processed.questionable_entities),
           residual_entities |-> Len(processed.residual_entities),
           fatal |-> FALSE,
           written |-> ~dry_run,
           output |-> IF dry_run THEN << >> ELSE processed.masked_content ]

\* 'caps exceeded' in error.lower() / 'image-only' in error.lower()
CapsExceededMessages == { }

MentionsCapsExceeded(error) == error \in CapsExceededMessages

MentionsImageOnly(error) == error = MSG_IMAGE_ONLY

CAPS_EXCEEDED_TEXT == << "C", "a", "p", "s", " ", "e", "x", "c", "e", "e", "d", "e", "d" >>

IMAGE_ONLY_TEXT == << "I", "m", "a", "g", "e", "-", "o", "n", "l", "y", " ", "P", "D", "F" >>

\* f"Caps exceeded: {path}" and f"Image-only PDF: {path}"
ViolationEntry(violation_text, path) ==
    violation_text \o << ":", " " >> \o path

\* the violation process_files records for one result (<< >> for none)
ViolationsOf(result) ==
    IF result.status # "error" THEN << >>
    ELSE IF \E i \in DOMAIN result.errors : MentionsCapsExceeded(result.errors[i])
    THEN << ViolationEntry(CAPS_EXCEEDED_TEXT, result.file_path.path) >>
    ELSE IF \E i \in DOMAIN result.errors : MentionsImageOnly(result.errors[i])
    THEN << ViolationEntry(IMAGE_ONLY_TEXT, result.file_path.path) >>
    ELSE << >>

\* The two tests on policy_violations are substring tests on the whole entry,
\* the file path included.
determine_exit_code(exit_on_violations, fatal, violations, res) ==
    IF Len(fatal) > 0 THEN EXIT_FATAL_ERROR
    ELSE IF \E v \in DOMAIN exit_on_violations :
              \/ /\ exit_on_violations[v] = "image-only-pdf"
                 /\ \E i \in DOMAIN violations :
                      Contains(violations[i], IMAGE_ONLY_TEXT)
              \/ /\ exit_on_violations[v] = "caps-exceeded"
                 /\ \E i \in DOMAIN violations :
                      Contains(violations[i], CAPS_EXCEEDED_TEXT)
              \/ /\ exit_on_violations[v] = "residuals"
                 /\ \E i \in DOMAIN res : res[i].residual_entities > 0
         THEN EXIT_POLICY_VIOLATION
         ELSE EXIT_SUCCESS

\* the result of modify_file failing to write gives 'modification_error'
ModificationError(result) ==
    [ result EXCEPT !.status = "modification_error",
                    !.errors = << "Error modifying text file" >>,
                    !.entities_found = 0, !.questionable_entities = 0,
                    !.residual_entities = 0, !.written = FALSE,
                    !.output = << >> ]

\* ------------------------------------------------------------------------
\* Inputs
\* ------------------------------------------------------------------------
\* a DATE, and an IP address that the DATE overlaps only in part
TEXT_DATE_IP == << "1", "/", "2", "/", "0", "3", ".", "1", ".", "1", ".", "1", ".", "1" >>

\* a capitalised word and an e-mail address
TEXT_NAME_EMAIL == << "S", "O", "N", " ", "a", "@", "b", ".", "c", "c" >>

\* a one-character word and a dotted quad that fails the IPv4 validator
TEXT_INITIAL_BAD_IP == << "J", " ", "1", ".", "1", ".", "1", ".", "2", "5", "6" >>

\* an e-mail address and a postal code
TEXT_EMAIL_ZIP == << "a", "@", "b", ".", "c", "c", " ", "1", "2", "3", "4", "5" >>

\* a word that reads as its own partial reveal
TEXT_STARRED == << "J", "*", " ", "b" >>

Texts == { TEXT_DATE_IP, TEXT_NAME_EMAIL, TEXT_INITIAL_BAD_IP, TEXT_EMAIL_ZIP,
           TEXT_STARRED }

MaxMlItems == 2

MaxBatch == 1

SmallChunk == 8

\* mask_format, min_confidence and the upper end of questionable_band: the
\* defaults of __init__ and one caller-supplied alternative for each
Configs ==
    { [ mask_format |-> f, min_confidence |-> b[1], questionable_band_hi |-> b[2] ] :
        f \in { "TOKEN", "PARTIAL_REVEAL" }, b \in { << 35, 65 >>, << 20, 85 >> } }

Backends == { "none", "longtransformer", "custom", "bert", "deberta" }

L_O == << "O" >>

L_person == << "p", "e", "r", "s", "o", "n" >>

L_org == << "o", "r", "g" >>

AbsentValue == << "z", "z" >>

LabelsOf(backend) ==
    IF backend = "longtransformer" THEN { L_LABEL_2, L_O } ELSE { L_person, L_org }

\* the (label, value) pairs a backend may report for a text: any word of
\* the text under any label, and one value that is not in the text
PairChoices(text, backend) ==
    { PiiPair(l, v) : l \in LabelsOf(backend), v \in Range(SplitWords(text, << >>)) }
    \cup { PiiPair(L_person, AbsentValue) }

SeqsUpTo(S, n) == UNION { [ 1 .. k -> S ] : k \in 0 .. n }

TOK_CLS == << "[", "C", "L", "S", "]" >>

TOK_SEP == << "[", "S", "E", "P", "]" >>

BertWordLabels == { "O", "B-PER", "I-PER", "B-MISC" }

\* the tokens of a text (its words between the two special tokens) under
\* every labelling of the words
TaggedChoices(text) ==
    LET words == SplitWords(text, << >>)
    IN  { << [ token |-> TOK_CLS, label |-> "O" ] >>
          \o [ i \in DOMAIN words |-> [ token |-> words[i], label |-> ls[i] ] ]
          \o << [ token |-> TOK_SEP, label |-> "O" ] >> :
          ls \in [ DOMAIN words -> BertWordLabels ] }

RawsFor(text, backend) ==
    CASE backend \in { "longtransformer", "custom" } ->
           SeqsUpTo(PairChoices(text, backend), MaxMlItems)
      [] backend = "bert" -> TaggedChoices(text)
      [] OTHER -> { << >> }

\* the faults that can strike a call: each stage outside the model
\* detector, inference, and the steps _detect_ml runs on the backend's output
FaultsFor(backend, raw) ==
    { NoFault }
    \cup { Fault(s, 0) : s \in (IF Len(raw) = 0 THEN FatalStages ELSE { }) }
    \cup { Fault("ml_infer", 0) : x \in (IF backend = "none" THEN { } ELSE { 1 }) }
    \cup { Fault("ml_convert", k) :
             k \in (IF backend \in { "longtransformer", "custom" }
                    THEN 0 .. (Len(raw) - 1) ELSE { }) }
    \cup { Fault(s, 0) :
             s \in (IF backend = "longtransformer" /\ Len(raw) > 0
                    THEN { "ml_filter", "ml_reclassify" } ELSE { }) }

\* ------------------------------------------------------------------------
\* PIIDetectionEngine.__init__: loading the model backends
\* ------------------------------------------------------------------------
\* The four attributes are TRUE when set and FALSE when None; so are the two
\* tokenizers. attempted lists the backends whose try block was entered and
\* failed those whose try block ended in its except clause.

\* the attributes as the first lines of __init__ leave them
NewEngine ==
    [ pc                       |-> "longtransformer",
      longtransformer_detector |-> FALSE,
      ml_detector              |-> FALSE,
      fallback_ner_model       |-> FALSE,
      fallback_tokenizer       |-> FALSE,
      base_deberta             |-> FALSE,
      base_tokenizer           |-> FALSE,
      transformers_imported    |-> FALSE,
      attempted                |-> << >>,
      failed                   |-> << >> ]

\* try: self.longtransformer_detector = LongTransformerPIIMasker()
TryLongTransformer(e, ok) ==
    [ e EXCEPT !.attempted = Append(@, "longtransformer"),
               !.longtransformer_detector = ok,
               !.failed = IF ok THEN @ ELSE Append(@, "longtransformer"),
               !.pc = IF ok THEN "constructed" ELSE "custom" ]

\* except: try: self.ml_detector = PIIMasker()
TryCustom(e, ok) ==
    [ e EXCEPT !.attempted = Append(@, "custom"),
               !.ml_detector = ok,
               !.failed = IF ok THEN @ ELSE Append(@, "custom"),
               !.pc = IF ok THEN "constructed" ELSE "bert" ]

\* except: try: the import of transformers, then the model is assigned, then
\* the tokenizer; each of the three can raise, and what was assigned before
\* the exception stays assigned
TryBertNer(e, imported, model, tokenizer) ==
    [ e EXCEPT !.attempted = Append(@, "bert"),
               !.transformers_imported = imported,
               !.fallback_ner_model = imported /\ model,
               !.fallback_tokenizer = imported /\ model /\ tokenizer,
               !.failed = IF imported /\ model /\ tokenizer THEN @
                          ELSE Append(@, "bert"),
               !.pc = IF imported /\ model /\ tokenizer THEN "constructed"
                      ELSE "deberta" ]

\* except: try: the model is assigned, then the tokenizer; the two class
\* names are bound only if the import in the try block before succeeded
TryBaseDeberta(e, model, tokenizer) ==
    [ e EXCEPT !.attempted = Append(@, "deberta"),
               !.base_deberta = e.transformers_imported /\ model,
               !.base_tokenizer = e.transformers_imported /\ model /\ tokenizer,
               !.failed = IF e.transformers_imported /\ model /\ tokenizer
                          THEN @ ELSE Append(@, "deberta"),
               !.pc = "constructed" ]

get_detection_methods(e) ==
    << "rule_based" >>
    \o (IF e.longtransformer_detector THEN << "longtransformer_pii" >> ELSE << >>)
    \o (IF e.ml_detector THEN << "custom_pii_model" >> ELSE << >>)
    \o (IF e.fallback_ner_model THEN << "bert_ner" >> ELSE << >>)
    \o (IF e.base_deberta THEN << "base_deberta_heuristic" >> ELSE << >>)

\* The backend whose entities _detect_ml returns: the first attribute that is
\* set and whose branch does not raise. The BERT branch raises AttributeError
\* (caught) when fallback_tokenizer was never assigned; the DeBERTa branch
\* reads no tokenizer.
ActiveBackend(e) ==
    IF e.longtransformer_detector THEN "longtransformer"
    ELSE IF e.ml_detector THEN "custom"
    ELSE IF e.fallback_ner_model /\ e.fallback_tokenizer THEN "bert"
    ELSE IF e.base_deberta THEN "deberta"
    ELSE "none"

\* the engine a construction leaves when exactly the given backend loaded
EngineWith(b) ==
    LET e1 == TryLongTransformer(NewEngine, b = "longtransformer")
        e2 == IF e1.pc = "custom" THEN TryCustom(e1, b = "custom") ELSE e1
        e3 == IF e2.pc = "bert"
              THEN TryBertNer(e2, b \in { "bert", "deberta" }, b = "bert",
                              b = "bert")
              ELSE e2
    IN  IF e3.pc = "deberta"
        THEN TryBaseDeberta(e3, b = "deberta", b = "deberta")
        ELSE e3

\* ------------------------------------------------------------------------
\* State
\* ------------------------------------------------------------------------
VARIABLES
    config,             \* PIIDetectionEngine.config
    backend,            \* the model detector handle left set by __init__
    chunk_size,         \* FileProcessor.config['chunk_size']
    call,               \* the detect_pii call and what it returned
    main,               \* the command line run: its arguments and position
    results,            \* CloakAndStyleCLI.results
    policy_violations,  \* CloakAndStyleCLI.policy_violations
    fatal_errors,       \* CloakAndStyleCLI.fatal_errors
    exit_code,          \* what determine_exit_code returned
    candidates,         \* the two lists handed to _fuse_and_resolve_entities
    resolved,           \* the list it returned
    engine,             \* the model attributes of the engine and where __init__ is
    batch,              \* a LaptopOptimizedProcessor.process_files run
    calls               \* detect_pii calls in progress on one engine, and their objects

vars ==
    << config, backend, chunk_size, call, main, results, policy_violations,
       fatal_errors, exit_code, candidates, resolved, engine, batch, calls >>

NoCall == [ kind |-> "none" ]

NoMain == [ pc |-> "none" ]

NoCandidates == [ kind |-> "none" ]

NoExit == [ kind |-> "none" ]

NoBatch == [ pc |-> "none" ]

NoCalls == [ pc |-> "none" ]

EngineInit ==
    /\ config \in Configs
    /\ backend \in Backends
    /\ engine = EngineWith(backend)

\* ------------------------------------------------------------------------
\* Specification of the engine: one detect_pii call on a constructed engine.
\* The call's text, the backend's output for it and the fault that strikes
\* it are drawn when the call is made (Init); DetectPii runs the call.
\* ------------------------------------------------------------------------
Pending(text, raw, fault) ==
    [ kind |-> "pending", text |-> text, raw |-> raw, fault |-> fault ]

Init ==
    /\ batch = NoBatch
    /\ calls = NoCalls
    /\ EngineInit
    /\ chunk_size = DefaultChunkSize
    /\ \E text \in Texts :
         \E raw \in RawsFor(text, backend) :
           \E fault \in FaultsFor(backend, raw) :
             call = Pending(text, raw, fault)
    /\ main = NoMain
    /\ results = << >>
    /\ policy_violations = << >>
    /\ fatal_errors = << >>
    /\ exit_code = NoExit
    /\ candidates = NoCandidates
    /\ resolved = << >>

DetectPii ==
    /\ call.kind = "pending"
    /\ call' = [ kind  |-> "detect_pii",
                 text  |-> call.text,
                 raw   |-> call.raw,
                 fault |-> call.fault,
                 r     |-> detect_pii(call.text, config, backend, call.raw,
                                      call.fault) ]
    /\ UNCHANGED << config, backend, chunk_size, main, results,
                    policy_violations, fatal_errors, exit_code,
                    candidates, resolved,
                    engine, batch,
                    calls >>

Next == DetectPii

Spec == Init /\ [][Next]_vars

\* ------------------------------------------------------------------------
\* Specification of fusion alone: _fuse_and_resolve_entities applied to
\* arbitrary candidate lists (every candidate with start_pos < end_pos)
\* ------------------------------------------------------------------------
\* the most candidates the two detectors hand to fusion together
MaxCandidates == 3

\* the text the candidates' values are cut from
FusionText == << "a", "b", "c" >>

Spans == { sp \in (0 .. Len(FusionText)) \X (0 .. Len(FusionText)) : sp[1] < sp[2] }

RuleCandidates ==
    { PIIEntity(t, Slice(FusionText, sp[1], sp[2]), sp[1], sp[2], 100,
                "rule_based", "auto_masked") :
        t \in { T_EMAIL, T_URL }, sp \in Spans }

MlCandidates ==
    { PIIEntity(T_PERSON, Slice(FusionText, sp[1], sp[2]), sp[1], sp[2], 85,
                "longtransformer_pii", "auto_masked") : sp \in Spans }

InitFusion ==
    /\ batch = NoBatch
    /\ calls = NoCalls
    /\ config \in { c \in Configs : c.mask_format = "TOKEN" /\ c.min_confidence = 35 }
    /\ backend = "none"
    /\ engine = EngineWith(backend)
    /\ chunk_size = DefaultChunkSize
    /\ call = NoCall
    /\ main = NoMain
    /\ results = << >>
    /\ policy_violations = << >>
    /\ fatal_errors = << >>
    /\ exit_code = NoExit
    /\ \E rule_entities \in SeqsUpTo(RuleCandidates, MaxCandidates) :
         \E ml_entities \in SeqsUpTo(MlCandidates, MaxCandidates - Len(rule_entities)) :
           candidates = [ kind |-> "pending", rule_entities |-> rule_entities,
                          ml_entities |-> ml_entities ]
    /\ resolved = << >>

Fuse ==
    /\ candidates.kind = "pending"
    /\ resolved' = _fuse_and_resolve_entities(candidates.rule_entities,
                                              candidates.ml_entities)
    /\ candidates' = [ candidates EXCEPT !.kind = "fused" ]
    /\ UNCHANGED << config, backend, chunk_size, call, main, results,
                    policy_violations, fatal_errors, exit_code,
                    engine, batch,
                    calls >>

NextFusion == Fuse

SpecFusion == InitFusion /\ [][NextFusion]_vars

\* ------------------------------------------------------------------------
\* Specification of fusion among rule-based candidates of two confidences.
\* The Pattern Detector gives every entity confidence 1.0; the comparison
\* of two rule-based confidences in _fuse_and_resolve_entities decides
\* only for lists in which a rule-based entity carries another confidence.
\* ------------------------------------------------------------------------
GradedRuleCandidates ==
    { PIIEntity(T_EMAIL, Slice(FusionText, sp[1], sp[2]), sp[1], sp[2], c,
                "rule_based", "auto_masked") :
        c \in { 90, 100 }, sp \in Spans }

InitGradedFusion ==
    /\ batch = NoBatch
    /\ calls = NoCalls
    /\ config \in { c \in Configs : c.mask_format = "TOKEN" /\ c.min_confidence = 35 }
    /\ backend = "none"
    /\ engine = EngineWith(backend)
    /\ chunk_size = DefaultChunkSize
    /\ call = NoCall
    /\ main = NoMain
    /\ results = << >>
    /\ policy_violations = << >>
    /\ fatal_errors = << >>
    /\ exit_code = NoExit
    /\ \E rule_entities \in SeqsUpTo(GradedRuleCandidates, MaxCandidates) :
         \E ml_entities \in SeqsUpTo(MlCandidates, MaxCandidates - Len(rule_entities)) :
           candidates = [ kind |-> "pending", rule_entities |-> rule_entities,
                          ml_entities |-> ml_entities ]
    /\ resolved = << >>

SpecGradedFusion == InitGradedFusion /\ [][NextFusion]_vars

\* ------------------------------------------------------------------------
\* Specification of fusion and what detect_pii does next with the list it
\* returned: triage updates the entities of the list in place and
\* _mask_text sorts the list itself, which is then entities_found
\* ------------------------------------------------------------------------
\* questionable_entities = self._mark_questionable_entities(all_entities)
MarkFused ==
    /\ candidates.kind = "fused"
    /\ resolved' = _mark_questionable_entities(resolved, config).entities
    /\ candidates' = [ candidates EXCEPT !.kind = "marked" ]
    /\ UNCHANGED << config, backend, chunk_size, call, main, results,
                    policy_violations, fatal_errors, exit_code,
                    engine, batch, calls >>

\* masked_content = self._mask_text(text, all_entities), and the
\* DetectionResult built over the same list; all_entities keeps the list as
\* it was when _mask_text was called
MaskFused ==
    /\ candidates.kind = "marked"
    /\ \E masking \in { _mask_text(FusionText, resolved, config) } :
         /\ resolved' = masking.entities
         /\ call' = [ kind           |-> "detect_pii",
                      all_entities   |-> resolved,
                      entities_found |-> masking.entities,
                      masked_content |-> masking.masked_text ]
    /\ candidates' = [ candidates EXCEPT !.kind = "masked" ]
    /\ UNCHANGED << config, backend, chunk_size, main, results,
                    policy_violations, fatal_errors, exit_code,
                    engine, batch, calls >>

NextFuseAndMask == Fuse \/ MarkFused \/ MaskFused

SpecFuseAndMask == InitFusion /\ [][NextFuseAndMask]_vars

\* ------------------------------------------------------------------------
\* Specification of a command line run: main() processes the collected
\* files one by one, analyses the results and determines the exit code
\* ------------------------------------------------------------------------
\* a file as the run finds it: a text file with its content, a file that is
\* gone when process_file looks for it, or an image-only PDF. fault_unit is
\* the text unit on which detect_pii raises (0: none); write_ok tells
\* whether modify_file manages to write the masked file.
PATH_TEXT == << "i", "n", ".", "t", "x", "t" >>

PATH_MISSING == << "g", "o", "n", "e", ".", "t", "x", "t" >>

PATH_SCAN == << "s", "c", "a", "n", ".", "p", "d", "f" >>

TextFiles ==
    { [ kind |-> "text", path |-> PATH_TEXT, content |-> t, fault_unit |-> f,
        write_ok |-> w ] :
        t \in Texts, f \in 0 .. 1, w \in BOOLEAN }

OtherFiles ==
    { [ kind |-> "missing", path |-> PATH_MISSING, content |-> << >>,
        fault_unit |-> 0, write_ok |-> TRUE ],
      [ kind |-> "image_pdf", path |-> PATH_SCAN, content |-> << >>,
        fault_unit |-> 0, write_ok |-> TRUE ] }

Files == TextFiles \cup OtherFiles

\* the values of --exit-on
ExitOnChoices ==
    { << >>, << "residuals" >>, << "image-only-pdf" >>,
      << "caps-exceeded", "residuals" >> }

\* the model backends whose output is a function of the text alone
BatchBackends == { "none", "deberta" }

NoRaws(file) == [ i \in 1 .. (Len(file.content) + 1) |-> << >> ]

InitBatch ==
    /\ batch = NoBatch
    /\ calls = NoCalls
    /\ config \in { c \in Configs : c.min_confidence = 35 }
    /\ backend \in BatchBackends
    /\ engine = EngineWith(backend)
    /\ chunk_size \in { SmallChunk, DefaultChunkSize }
    /\ call = NoCall
    /\ \E files \in SeqsUpTo(Files, MaxBatch) : \E dry_run \in BOOLEAN :
         /\ Len(files) > 0
         /\ main = [ pc |-> "process_files", files |-> files, dry_run |-> dry_run,
                     processed |-> << >>, returned |-> << >> ]
    /\ results = << >>
    /\ policy_violations = << >>
    /\ fatal_errors = << >>
    /\ exit_code = NoExit
    /\ candidates = NoCandidates
    /\ resolved = << >>

\* processor_func(file_path) for the next file of the batch
ProcessSingleFile ==
    /\ main.pc = "process_files"
    /\ Len(main.returned) < Len(main.files)
    /\ \E file \in { main.files[Len(main.returned) + 1] } :
       \E processed \in { process_file(file, config, backend, chunk_size,
                                       NoRaws(file), file.fault_unit) } :
       \E result \in { process_single_file(file, main.dry_run, processed) } :
       \E returned \in { IF result.status = "success" /\ ~file.write_ok
                         THEN ModificationError(result)
                         ELSE result } :
         /\ main' = [ main EXCEPT !.processed = Append(@, processed),
                                  !.returned = Append(@, returned) ]
         /\ fatal_errors' = IF returned.fatal
                            THEN Append(fatal_errors,
                                        [ by |-> "process_single_file",
                                          errors |-> returned.errors ])
                            ELSE fatal_errors
    /\ UNCHANGED << config, backend, chunk_size, call, results, policy_violations,
                    exit_code, candidates, resolved,
                    engine, batch,
                    calls >>

RECURSIVE FatalOf(_)
FatalOf(res) ==
    IF Len(res) = 0 THEN << >>
    ELSE (IF Head(res).status = "fatal_error"
          THEN << [ by |-> "process_files", errors |-> Head(res).errors ] >>
          ELSE << >>) \o FatalOf(Tail(res))

RECURSIVE AllViolationsOf(_)
AllViolationsOf(res) ==
    IF Len(res) = 0 THEN << >>
    ELSE ViolationsOf(Head(res)) \o AllViolationsOf(Tail(res))

\* the loop of process_files over the results, and cli.results = results
AnalyzeResults ==
    /\ main.pc = "process_files"
    /\ Len(main.returned) = Len(main.files)
    /\ fatal_errors' = fatal_errors \o FatalOf(main.returned)
    /\ policy_violations' = policy_violations \o AllViolationsOf(main.returned)
    /\ results' = main.returned
    /\ main' = [ main EXCEPT !.pc = "processed" ]
    /\ UNCHANGED << config, backend, chunk_size, call, exit_code, candidates,
                    resolved,
                    engine, batch,
                    calls >>

DetermineExitCode ==
    /\ main.pc = "processed"
    /\ \E exit_on_violations \in ExitOnChoices :
         exit_code' = [ kind |-> "exit",
                        exit_on_violations |-> exit_on_violations,
                        code |-> determine_exit_code(exit_on_violations, fatal_errors,
                                                     policy_violations, results) ]
    /\ main' = [ main EXCEPT !.pc = "done" ]
    /\ UNCHANGED << config, backend, chunk_size, call, results, policy_violations,
                    fatal_errors, candidates, resolved,
                    engine, batch,
                    calls >>

NextBatch == ProcessSingleFile \/ AnalyzeResults \/ DetermineExitCode

SpecBatch == InitBatch /\ [][NextBatch]_vars

\* ------------------------------------------------------------------------
\* Properties of fusion
\* ------------------------------------------------------------------------
Fused == candidates.kind = "fused"

\* the candidates in the order the loop visits them
AllSorted == SortAsc(candidates.rule_entities \o candidates.ml_entities)

NoTwoOverlap(list) ==
    \A i, j \in DOMAIN list :
        i # j => ~( /\ list[i].start_pos < list[j].end_pos
                    /\ list[j].start_pos < list[i].end_pos )

\* C1: when every candidate has start_pos < end_pos, no two entities of the
\* list fusion returns overlap.
C1_NoOverlaps == Fused => NoTwoOverlap(resolved)

\* fusion returned two entities or more and dropped an overlapping candidate
C1_Witness ==
    /\ Fused
    /\ Len(resolved) >= 2
    /\ Len(resolved) < Len(AllSorted)

IsRule(e) == e.detection_method = "rule_based"

\* C2: whenever fusion compares an overlapping rule-based and non-rule-based
\* candidate, the rule-based one is in the list after the comparison and the
\* other one is not in the result; no rule-based entity leaves the list at
\* the step of a non-rule-based candidate; a rule EMAIL and a model PERSON on
\* the same span give exactly the EMAIL.
C2_RulePrecedence ==
    Fused =>
      /\ \A k \in DOMAIN AllSorted :
           LET before   == ResolvedAfter(AllSorted, k - 1)
               after    == ResolvedAfter(AllSorted, k)
               entity   == AllSorted[k]
               j        == FirstOverlap(before, entity)
           IN  /\ (j # 0 /\ IsRule(entity) /\ ~IsRule(before[j]))
                    => /\ \E i \in DOMAIN after : after[i] = entity
                       /\ \A i \in DOMAIN resolved : resolved[i] # before[j]
               /\ (j # 0 /\ ~IsRule(entity) /\ IsRule(before[j]))
                    => /\ \E i \in DOMAIN after : after[i] = before[j]
                       /\ \A i \in DOMAIN resolved : resolved[i] # entity
               /\ ~IsRule(entity)
                    => \A i \in DOMAIN before :
                         IsRule(before[i]) => \E h \in DOMAIN after : after[h] = before[i]
      /\ \A e \in RuleCandidates, m \in MlCandidates :
           ( /\ candidates.rule_entities = << e >>
             /\ candidates.ml_entities = << m >>
             /\ e.entity_type = T_EMAIL
             /\ e.start_pos = m.start_pos
             /\ e.end_pos = m.end_pos )
             => resolved = << e >>

\* a rule-based candidate displaced a model entity already in the list, and
\* the result holds rule-based entities only although the model proposed some
C2_Witness ==
    /\ Fused
    /\ \E k \in DOMAIN AllSorted :
         LET before == ResolvedAfter(AllSorted, k - 1)
             j      == FirstOverlap(before, AllSorted[k])
         IN  j # 0 /\ IsRule(AllSorted[k]) /\ ~IsRule(before[j])
    /\ \A i \in DOMAIN resolved : IsRule(resolved[i])

\* ------------------------------------------------------------------------
\* Properties of detect_pii
\* ------------------------------------------------------------------------
\* detect_pii returned a DetectionResult
Returned == call.kind = "detect_pii" /\ ~call.r.raised

\* the mask written for the k-th entity of entities_found
MaskOf(k) ==
    MaskFor(call.r.entities_found[k], CounterAt(call.r.entities_found, k), config)

\* the length of the text an entity's span covers
SpanLen(e) == Len(Slice(call.text, e.start_pos, e.end_pos))

\* by how much the masks written left of the k-th entity moved its span
RECURSIVE ShiftFrom(_)
ShiftFrom(j) ==
    IF j > Len(call.r.entities_found) THEN 0
    ELSE Len(MaskOf(j)) - SpanLen(call.r.entities_found[j]) + ShiftFrom(j + 1)

\* what masked_content holds in place of the k-th entity's span
ReplacedPart(k) ==
    LET at == call.r.entities_found[k].start_pos + ShiftFrom(k + 1)
    IN  Slice(call.r.masked_content, at, at + Len(MaskOf(k)))

\* C3: the part of masked_content that replaces an entity's span does not
\* contain the entity's value verbatim.
C3_MaskingCompleteness ==
    Returned =>
      \A k \in DOMAIN call.r.entities_found :
        ~Contains(ReplacedPart(k), call.r.entities_found[k].value)

\* s reads [TYPE_nnn] with nnn three digits
IsTypeToken(s, entity_type) ==
    /\ Len(s) = Len(entity_type) + 6
    /\ s[1] = "["
    /\ SubSeq(s, 2, Len(entity_type) + 1) = entity_type
    /\ s[Len(entity_type) + 2] = "_"
    /\ \A i \in (Len(entity_type) + 3) .. (Len(entity_type) + 5) : s[i] \in Digit
    /\ s[Len(s)] = "]"

\* s reads the first character of value and then one asterisk per further
\* character, a lone asterisk for a value of one character or none
IsPartialReveal(s, value) ==
    IF Len(value) > 1
    THEN /\ Len(s) = Len(value)
         /\ s[1] = value[1]
         /\ \A i \in 2 .. Len(s) : s[i] = "*"
    ELSE s = << "*" >>

\* C3 (amended): the part of masked_content that replaces an entity's span
\* does not contain the entity's value verbatim, unless the value is a
\* substring of a token [TYPE_nnn] of the entity's type or, for a free-text
\* type under PARTIAL_REVEAL, the value reads as its own partial reveal.
C3_MaskingCompletenessAmended ==
    Returned =>
      \A k \in DOMAIN call.r.entities_found :
        LET e == call.r.entities_found[k]
        IN  Contains(ReplacedPart(k), e.value) =>
              \/ \E n \in DOMAIN call.r.entities_found :
                   Contains(Token(e.entity_type, n), e.value)
              \/ /\ e.entity_type \in free_text_entities
                 /\ config.mask_format = "PARTIAL_REVEAL"
                 /\ IsPartialReveal(e.value, e.value)

\* under PARTIAL_REVEAL a free-text value of one character and a structured
\* value were replaced by text that does not contain them
C3_Witness ==
    /\ Returned
    /\ config.mask_format = "PARTIAL_REVEAL"
    /\ \E k \in DOMAIN call.r.entities_found :
         /\ call.r.entities_found[k].entity_type \in free_text_entities
         /\ Len(call.r.entities_found[k].value) = 1
         /\ ~Contains(ReplacedPart(k), call.r.entities_found[k].value)
    /\ \E k \in DOMAIN call.r.entities_found :
         /\ call.r.entities_found[k].entity_type \notin free_text_entities
         /\ ~Contains(ReplacedPart(k), call.r.entities_found[k].value)

\* C4: the mask written for an entity is a function of its type class and
\* mask_format: a full token for structured types and for types of neither
\* class, and for free-text types a partial reveal under PARTIAL_REVEAL and
\* a full token otherwise.
C4_MaskByTypeClass ==
    Returned =>
      \A k \in DOMAIN call.r.entities_found :
        LET e == call.r.entities_found[k]
        IN  IF e.entity_type \in structured_entities
            THEN IsTypeToken(ReplacedPart(k), e.entity_type)
            ELSE IF e.entity_type \in free_text_entities
                    /\ config.mask_format = "PARTIAL_REVEAL"
                 THEN IsPartialReveal(ReplacedPart(k), e.value)
                 ELSE IsTypeToken(ReplacedPart(k), e.entity_type)

\* under PARTIAL_REVEAL a structured entity and a free-text entity of more
\* than one character were masked
C4_Witness ==
    /\ Returned
    /\ config.mask_format = "PARTIAL_REVEAL"
    /\ \E k \in DOMAIN call.r.entities_found :
         call.r.entities_found[k].entity_type \in structured_entities
    /\ \E k \in DOMAIN call.r.entities_found :
         /\ call.r.entities_found[k].entity_type \in free_text_entities
         /\ Len(call.r.entities_found[k].value) > 1

\* C5: entities_found of a DetectionResult is sorted by start_pos ascending.
C5_EntitiesFoundAscending ==
    Returned =>
      \A i, j \in DOMAIN call.r.entities_found :
        i < j => call.r.entities_found[i].start_pos
                   <= call.r.entities_found[j].start_pos

SameButStatus(a, b) == [ a EXCEPT !.status = b.status ] = b

InBand(e) ==
    /\ config.min_confidence <= e.confidence
    /\ e.confidence <= config.questionable_band_hi

\* C7: an entity is in questionable_entities with status questionable iff
\* min_confidence <= confidence <= the band's upper bound; every other
\* entity keeps status auto_masked; masking changes no status.
C7_QuestionableBand ==
    Returned =>
      /\ \A k \in DOMAIN call.r.triaged :
           LET e == call.r.triaged[k]
           IN  /\ (e.status = "questionable") <=> InBand(e)
               /\ (\E i \in DOMAIN call.r.questionable_entities :
                      call.r.questionable_entities[i] = e) <=> InBand(e)
               /\ ~InBand(e) => e.status = "auto_masked"
      /\ \A i \in DOMAIN call.r.questionable_entities :
           \E k \in DOMAIN call.r.triaged :
             call.r.triaged[k] = call.r.questionable_entities[i]
      /\ Len(call.r.entities_found) = Len(call.r.triaged)
      /\ \A k \in DOMAIN call.r.triaged :
           \E i \in DOMAIN call.r.entities_found :
             call.r.entities_found[i] = call.r.triaged[k]

\* the result holds a questionable entity at the upper end of the band, and
\* entities above the band and below min_confidence
C7_Witness ==
    /\ Returned
    /\ \E i \in DOMAIN call.r.questionable_entities :
         call.r.questionable_entities[i].confidence = config.questionable_band_hi
    /\ \E k \in DOMAIN call.r.entities_found :
         call.r.entities_found[k].confidence > config.questionable_band_hi

\* C8: residual_entities is what the pattern detector finds in
\* masked_content (same types, values, positions, validators and order),
\* each entity with detection_method residual_validation and status
\* residual; the model detector has no part in it.
C8_ResidualIsPatternDetector ==
    Returned =>
      LET found == _detect_rule_based(call.r.masked_content)
      IN  call.r.residual_entities =
            [ i \in DOMAIN found |->
                [ found[i] EXCEPT !.detection_method = "residual_validation",
                                  !.status = "residual" ] ]

\* the residual validator reported an entity of a text that was masked
C8_Witness ==
    /\ Returned
    /\ Len(call.r.entities_found) > 0
    /\ Len(call.r.residual_entities) > 0

MlStages == { "ml_infer", "ml_convert", "ml_filter", "ml_reclassify" }

\* C10: an exception inside the model backend leaves the model detector with
\* zero entities and detect_pii with the rule-only result; an exception
\* anywhere else propagates.
C10_ModelFaultGivesRuleOnly ==
    call.kind = "detect_pii" =>
      /\ call.fault.stage \in MlStages =>
           /\ ~call.r.raised
           /\ call.r.ml_entities = << >>
           /\ call.r = detect_pii(call.text, config, "none", << >>, NoFault)
      /\ call.fault.stage \in FatalStages => call.r.raised

\* ------------------------------------------------------------------------
\* Properties of a command line run
\* ------------------------------------------------------------------------
\* detect_pii returned for every text unit of the i-th file, for one of them
\* with residual entities
HasResidualUnit(i) ==
    /\ main.processed[i].kind = "result"
    /\ main.processed[i].errors = << >>
    /\ \E u \in DOMAIN main.processed[i].units :
         Len(main.processed[i].units[u].residual_entities) > 0

\* C9: when detect_pii returns residual entities for a text unit of a file,
\* the result of process_file for the file has residual entities, the CLI
\* result of the file counts them, determine_exit_code with residuals among
\* exit_on_violations returns 2 when there is no fatal error, and the output
\* is written.
C9_ResidualsDetectable ==
    main.pc \in { "processed", "done" } =>
      \A i \in DOMAIN results :
        HasResidualUnit(i) =>
          /\ Len(main.processed[i].residual_entities) > 0
          /\ (results[i].status \in { "success", "dry_run" }
                => results[i].residual_entities > 0)
          /\ (results[i].status = "success" => results[i].written)
          /\ ( /\ exit_code.kind = "exit"
               /\ \E v \in DOMAIN exit_code.exit_on_violations :
                    exit_code.exit_on_violations[v] = "residuals"
               /\ fatal_errors = << >>
               /\ results[i].status \in { "success", "dry_run" } )
               => exit_code.code = EXIT_POLICY_VIOLATION

\* ------------------------------------------------------------------------
\* Specification of the engine without a model backend: one call of
\* _luhn_check, _validate_ssn, _detect_rule_based or detect_pii on an input
\* drawn when the call is made.
\* ------------------------------------------------------------------------
CARD_4111 == << "4", "1", "1", "1", "1", "1", "1", "1", "1", "1", "1", "1", "1", "1", "1", "1" >>

CARD_5555 == << "5", "5", "5", "5", "4", "4", "4", "4", "3", "3", "3", "3", "2", "2", "2", "2" >>

CARD_4111_OFF == << "4", "1", "1", "1", "1", "1", "1", "1", "1", "1", "1", "1", "1", "1", "1", "2" >>

CARD_13_DIGITS == << "4", "2", "2", "2", "2", "2", "2", "2", "2", "2", "2", "2", "2" >>

CARD_19_DIGITS == << "4", "1", "1", "1", "1", "1", "1", "1", "1", "1", "1", "1", "1", "1", "1", "1", "1", "1", "0" >>

CARD_DASHED == << "4", "1", "1", "1", "-", "1", "1", "1", "1", "-", "1", "1", "1", "1", "-", "1", "1", "1", "1" >>

CARD_DASHED_OFF == << "4", "1", "1", "1", "-", "1", "1", "1", "1", "-", "1", "1", "1", "1", "-", "1", "1", "1", "2" >>

CardBases ==
    { CARD_4111, CARD_5555, CARD_4111_OFF, CARD_13_DIGITS, CARD_19_DIGITS,
      CARD_DASHED }

SSN_VALID == << "1", "2", "3", "-", "4", "5", "-", "6", "7", "8", "9" >>

SSN_000 == << "0", "0", "0", "-", "1", "2", "-", "3", "4", "5", "6" >>

SSN_666 == << "6", "6", "6", "-", "1", "2", "-", "3", "4", "5", "6" >>

SSN_MIDDLE_00 == << "1", "2", "3", "-", "0", "0", "-", "6", "7", "8", "9" >>

SSN_LAST_0000 == << "1", "2", "3", "-", "4", "5", "-", "0", "0", "0", "0" >>

SSN_9XX == << "9", "0", "0", "-", "1", "2", "-", "3", "4", "5", "6" >>

SSN_UNDASHED == << "1", "2", "3", "4", "5", "6", "7", "8", "9" >>

SsnBases ==
    { SSN_VALID, SSN_000, SSN_666, SSN_MIDDLE_00, SSN_LAST_0000, SSN_9XX,
      SSN_UNDASHED }

IP_250 == << "1", ".", "1", ".", "1", ".", "2", "5", "0" >>

\* the characters an input is edited with: the digits, the two separators
\* and a letter
EditChars == Digit \cup { "-", " ", "x" }

\* every string of S with one character replaced
Substituted(S) ==
    UNION { { [ s EXCEPT ![i] = c ] : i \in 1 .. Len(s), c \in EditChars } : s \in S }

\* every string of S with one character of C inserted
Inserted(S, C) ==
    UNION { { SubSeq(s, 1, i) \o << c >> \o SubSeq(s, i + 1, Len(s)) :
                i \in 0 .. Len(s), c \in C } : s \in S }

Prefixes(S) ==
    UNION { { SubSeq(s, 1, n) : n \in 0 .. Len(s) } : s \in S }

RECURSIVE Repeat(_, _)
Repeat(c, k) ==
    IF k = 0 THEN << >> ELSE << c >> \o Repeat(c, k - 1)

\* the number of digits appended to an input
MaxExtra == 2

Extended(S) ==
    UNION { { s \o Repeat(d, k) : d \in Digit, k \in 0 .. MaxExtra } : s \in S }

\* every string of S with its last character replaced by each digit
LastDigitVariants(S) ==
    UNION { { [ s EXCEPT ![Len(s)] = d ] : d \in Digit } : s \in S }

LuhnInputs ==
    CardBases \cup Substituted(CardBases)
    \cup Inserted(CardBases, { "-", " ", "x" })
    \cup Prefixes(CardBases) \cup Extended(CardBases)

SsnInputs ==
    SsnBases \cup Substituted(SsnBases)
    \cup Inserted(SsnBases, { "-", "x", "0" })
    \cup Prefixes(SsnBases)

RuleTexts ==
    LastDigitVariants({ CARD_DASHED, CARD_4111, IP_250, SSN_LAST_0000 })
    \cup { SSN_VALID, SSN_000, SSN_666, SSN_MIDDLE_00, SSN_9XX,
           IP_250 \o << " " >> \o CARD_4111_OFF,
           SSN_000 \o << " " >> \o SSN_VALID }

\* the end-to-end scenario, and the same with the telephone number written
\* without parentheses
TEXT_CONTACT ==
    << "C", "o", "n", "t", "a", "c", "t", " ", "J", "o", "h", "n", " ", "S",
       "m", "i", "t", "h", " ", "a", "t", " ", "j", "o", "h", "n", ".", "s",
       "m", "i", "t", "h", "@", "e", "m", "a", "i", "l", ".", "c", "o", "m",
       " ", "o", "r", " ", "(", "5", "5", "5", ")", " ", "1", "2", "3", "-",
       "4", "5", "6", "7", ",", " ", "S", "S", "N", " ", "1", "2", "3", "-",
       "4", "5", "-", "6", "7", "8", "9", "." >>

TEXT_CONTACT_PLAIN ==
    << "C", "o", "n", "t", "a", "c", "t", " ", "J", "o", "h", "n", " ", "S",
       "m", "i", "t", "h", " ", "a", "t", " ", "j", "o", "h", "n", ".", "s",
       "m", "i", "t", "h", "@", "e", "m", "a", "i", "l", ".", "c", "o", "m",
       " ", "o", "r", " ", "5", "5", "5", "-", "1", "2", "3", "-", "4", "5",
       "6", "7", ",", " ", "S", "S", "N", " ", "1", "2", "3", "-", "4", "5",
       "-", "6", "7", "8", "9", "." >>

TEXT_CONTACT_MASKED ==
    << "C", "o", "n", "t", "a", "c", "t", " ", "J", "o", "h", "n", " ", "S",
       "m", "i", "t", "h", " ", "a", "t", " ", "[", "E", "M", "A", "I", "L",
       "_", "0", "0", "1", "]", " ", "o", "r", " ", "[", "P", "H", "O", "N",
       "E", "_", "0", "0", "1", "]", ",", " ", "S", "S", "N", " ", "[", "S",
       "S", "N", "_", "0", "0", "1", "]", "." >>

EndToEndTexts == { TEXT_CONTACT, TEXT_CONTACT_PLAIN }

PendingValidation(function, value) ==
    [ kind |-> "pending_validation", function |-> function, value |-> value ]

InitValidators ==
    /\ EngineInit
    /\ backend = "none"
    /\ chunk_size = DefaultChunkSize
    /\ \/ \E number \in LuhnInputs :
            call = PendingValidation("_luhn_check", number)
       \/ \E ssn \in SsnInputs :
            call = PendingValidation("_validate_ssn", ssn)
       \/ \E text \in RuleTexts :
            call = PendingValidation("_detect_rule_based", text)
       \/ \E text \in EndToEndTexts :
            call = PendingValidation("detect_pii", text)
    /\ main = NoMain
    /\ results = << >>
    /\ policy_violations = << >>
    /\ fatal_errors = << >>
    /\ exit_code = NoExit
    /\ candidates = NoCandidates
    /\ resolved = << >>
    /\ batch = NoBatch
    /\ calls = NoCalls

LuhnCheck ==
    /\ call.kind = "pending_validation"
    /\ call.function = "_luhn_check"
    /\ call' = [ kind     |-> "_luhn_check",
                 value    |-> call.value,
                 returned |-> _luhn_check(call.value) ]
    /\ UNCHANGED << config, backend, chunk_size, main, results,
                    policy_violations, fatal_errors, exit_code, candidates,
                    resolved, engine, batch,
                    calls >>

ValidateSsn ==
    /\ call.kind = "pending_validation"
    /\ call.function = "_validate_ssn"
    /\ call' = [ kind     |-> "_validate_ssn",
                 value    |-> call.value,
                 returned |-> _validate_ssn(call.value) ]
    /\ UNCHANGED << config, backend, chunk_size, main, results,
                    policy_violations, fatal_errors, exit_code, candidates,
                    resolved, engine, batch,
                    calls >>

DetectRuleBased ==
    /\ call.kind = "pending_validation"
    /\ call.function = "_detect_rule_based"
    /\ call' = [ kind     |-> "_detect_rule_based",
                 value    |-> call.value,
                 returned |-> _detect_rule_based(call.value) ]
    /\ UNCHANGED << config, backend, chunk_size, main, results,
                    policy_violations, fatal_errors, exit_code, candidates,
                    resolved, engine, batch,
                    calls >>

\* detect_pii on the engine without a model backend
DetectPiiRuleOnly ==
    /\ call.kind = "pending_validation"
    /\ call.function = "detect_pii"
    /\ call' = [ kind  |-> "detect_pii",
                 text  |-> call.value,
                 raw   |-> << >>,
                 fault |-> NoFault,
                 r     |-> detect_pii(call.value, config, backend, << >>,
                                      NoFault) ]
    /\ UNCHANGED << config, backend, chunk_size, main, results,
                    policy_violations, fatal_errors, exit_code, candidates,
                    resolved, engine, batch,
                    calls >>

NextValidators ==
    \/ LuhnCheck
    \/ ValidateSsn
    \/ DetectRuleBased
    \/ DetectPiiRuleOnly

SpecValidators == InitValidators /\ [][NextValidators]_vars

\* ------------------------------------------------------------------------
\* Specification of the configuration: PIIDetectionEngine(config) with a
\* configuration the caller supplies, then one detect_pii call.
\* ------------------------------------------------------------------------
\* A configuration dictionary is the set of its keys and the values under
\* them; the keys of config['validation'] are listed with the others, and a
\* value whose key is absent is a placeholder that is never read.
T_DOB == << "D", "O", "B" >>

T_NOPE == << "N", "O", "P", "E" >>

DefaultConfig ==
    [ keys |-> { "entities", "mask_format", "validation", "min_confidence",
                 "questionable_band" },
      entities |-> { T_PERSON, T_ADDRESS, T_EMAIL, T_PHONE, T_IP,
                     T_CREDIT_CARD, T_BANK_ACCT, T_NATIONAL_ID, T_DOB,
                     T_USERNAME, T_GEO },
      mask_format |-> "TOKEN",
      min_confidence |-> 35,
      questionable_band_lo |-> 35,
      questionable_band_hi |-> 65 ]

\* self.config = config or {...}: None and the empty dictionary give the
\* default, any other dictionary is kept as it is
ConfigOf(given) ==
    IF given.keys = { } THEN DefaultConfig ELSE given

\* the two subscripts at the head of _mark_questionable_entities succeed
HasThresholds(cfg) ==
    { "validation", "min_confidence", "questionable_band" } \subseteq cfg.keys

\* detect_pii on an engine whose configuration is any dictionary: the
\* thresholds are read by subscript (KeyError, uncaught, when a key is
\* absent), mask_format by get, and entities not at all
detect_pii_configured(text, cfg, active_backend, raw, fault) ==
    IF ~HasThresholds(cfg) THEN Raised(text)
    ELSE detect_pii(text,
                    [ mask_format |-> IF "mask_format" \in cfg.keys
                                      THEN cfg.mask_format ELSE "None",
                      min_confidence |-> cfg.min_confidence,
                      questionable_band_hi |-> cfg.questionable_band_hi ],
                    active_backend, raw, fault)

EntitiesChoices ==
    { [ keys |-> { }, entities |-> { } ] }
    \cup { [ keys |-> { "entities" }, entities |-> E ] :
             E \in { { T_EMAIL }, { T_EMAIL, T_ZIP_CODE }, { T_PERSON },
                     { T_EMAIL, T_NOPE }, DefaultConfig.entities } }

MaskFormatChoices ==
    { [ keys |-> { }, mask_format |-> "" ] }
    \cup { [ keys |-> { "mask_format" }, mask_format |-> f ] :
             f \in { "TOKEN", "PARTIAL_REVEAL" } }

ValidationChoices ==
    { [ keys |-> { }, min_confidence |-> 0, questionable_band_lo |-> 0,
        questionable_band_hi |-> 0 ],
      [ keys |-> { "validation", "min_confidence" }, min_confidence |-> 35,
        questionable_band_lo |-> 0, questionable_band_hi |-> 0 ] }
    \cup { [ keys |-> { "validation", "min_confidence", "questionable_band" },
             min_confidence |-> b[1], questionable_band_lo |-> b[2],
             questionable_band_hi |-> b[3] ] :
             b \in { << 35, 35, 65 >>, << 20, 20, 85 >>, << 35, 65, 35 >>,
                     << 20, 85, 20 >> } }

GivenConfigs ==
    { [ keys |-> e.keys \cup f.keys \cup v.keys,
        entities |-> e.entities,
        mask_format |-> f.mask_format,
        min_confidence |-> v.min_confidence,
        questionable_band_lo |-> v.questionable_band_lo,
        questionable_band_hi |-> v.questionable_band_hi ] :
        e \in EntitiesChoices, f \in MaskFormatChoices, v \in ValidationChoices }

NoConfig == [ keys |-> { } ]

NoEngine == [ pc |-> "none" ]

ConfigTexts == { TEXT_NAME_EMAIL, TEXT_EMAIL_ZIP }

InitConfig ==
    /\ config = NoConfig
    /\ backend \in BatchBackends
    /\ engine = NoEngine
    /\ chunk_size = DefaultChunkSize
    /\ \E given \in GivenConfigs :
         call = [ kind |-> "pending_init", given |-> given ]
    /\ main = NoMain
    /\ results = << >>
    /\ policy_violations = << >>
    /\ fatal_errors = << >>
    /\ exit_code = NoExit
    /\ candidates = NoCandidates
    /\ resolved = << >>
    /\ batch = NoBatch
    /\ calls = NoCalls

\* PIIDetectionEngine(given): nothing in __init__ reads the configuration
Construct ==
    /\ call.kind = "pending_init"
    /\ config' = ConfigOf(call.given)
    /\ engine' = EngineWith(backend)
    /\ call' = [ kind |-> "constructed", given |-> call.given ]
    /\ UNCHANGED << backend, chunk_size, main, results, policy_violations,
                    fatal_errors, exit_code, candidates, resolved, batch,
                    calls >>

DetectPiiConfigured ==
    /\ call.kind = "constructed"
    /\ \E text \in ConfigTexts :
         call' = [ kind  |-> "detect_pii",
                   given |-> call.given,
                   text  |-> text,
                   r     |-> detect_pii_configured(text, config, backend,
                                                   << >>, NoFault) ]
    /\ UNCHANGED << config, backend, chunk_size, main, results,
                    policy_violations, fatal_errors, exit_code, candidates,
                    resolved, engine, batch,
                    calls >>

NextConfig ==
    \/ Construct
    \/ DetectPiiConfigured

SpecConfig == InitConfig /\ [][NextConfig]_vars

\* ------------------------------------------------------------------------
\* Specification of the batch strategies: one call of
\* LaptopOptimizedProcessor.process_files with a per-file callable that
\* returns or raises for each file as the caller's function decides.
\* ------------------------------------------------------------------------
\* the number of files of a batch
MaxFiles == 3

\* a cap on the batch size the caller sets with PerformanceCaps
SmallBatchCap == 2

DefaultMaxBatchFiles == 50

Strategies ==
    { "sequential_streaming", "sequential_buffered", "parallel_limited",
      "sequential_optimized" }

\* the values _calculate_optimal_batch_size returns when the memory is low
BatchSizes == { 5, 10 }

\* a file of the batch: whether validate_file_caps accepts it and whether
\* the callable raises for it; the batch gives each its position as path
FileChoices ==
    [ valid : BOOLEAN, raises : BOOLEAN ]

\* what processor_func returns for a file
ResultFor(path) == [ kind |-> "result", file |-> path ]

\* {'error': str(e), 'file': file_path}
ErrorEntry(path) == [ kind |-> "error_entry", error |-> "raised", file |-> path ]

\* an except clause that logs and appends nothing
TryProcessorFuncDropping(collected, file_paths, i) ==
    IF file_paths[i].raises THEN collected
    ELSE Append(collected, ResultFor(i))

\* the try block around processor_func(file_path) in each strategy
TryProcessorFunc(collected, file_paths, i) ==
    IF file_paths[i].raises THEN Append(collected, ErrorEntry(i))
    ELSE Append(collected, ResultFor(i))

\* the inner loop of _process_sequential_buffered over file_paths[i:j]
RECURSIVE ProcessSlice(_, _, _, _)
ProcessSlice(collected, file_paths, i, j) ==
    IF i > j THEN collected
    ELSE ProcessSlice(TryProcessorFunc(collected, file_paths, i), file_paths,
                      i + 1, j)

validate_batch_caps(file_paths, max_batch_files) ==
    /\ Len(file_paths) <= max_batch_files
    /\ \A i \in 1 .. Len(file_paths) : file_paths[i].valid

Min(a, b) == IF a < b THEN a ELSE b

InitStrategies ==
    /\ config \in { c \in Configs : c.mask_format = "TOKEN" /\ c.min_confidence = 35 }
    /\ backend = "none"
    /\ engine = EngineWith(backend)
    /\ chunk_size = DefaultChunkSize
    /\ call = NoCall
    /\ main = NoMain
    /\ results = << >>
    /\ policy_violations = << >>
    /\ fatal_errors = << >>
    /\ exit_code = NoExit
    /\ candidates = NoCandidates
    /\ resolved = << >>
    /\ calls = NoCalls
    /\ \E strategy \in Strategies, batch_size \in BatchSizes,
          max_batch_files \in { SmallBatchCap, DefaultMaxBatchFiles },
          file_paths \in SeqsUpTo(FileChoices, MaxFiles) :
         batch = [ pc              |-> "process_files",
                   strategy        |-> strategy,
                   batch_size      |-> batch_size,
                   max_batch_files |-> max_batch_files,
                   file_paths      |-> file_paths,
                   done            |-> { },
                   results         |-> << >> ]

\* the head of process_files: ValueError when the batch fails validation,
\* else the dispatch on the strategy
ValidateBatch ==
    /\ batch.pc = "process_files"
    /\ batch' = [ batch EXCEPT
                    !.pc = IF validate_batch_caps(batch.file_paths,
                                                  batch.max_batch_files)
                           THEN batch.strategy ELSE "raised" ]
    /\ UNCHANGED << config, backend, chunk_size, call, main, results,
                    policy_violations, fatal_errors, exit_code, candidates,
                    resolved, engine,
                    calls >>

\* one turn of the loop of _process_sequential_streaming
SequentialStreaming ==
    /\ batch.pc = "sequential_streaming"
    /\ \E i \in { Cardinality(batch.done) + 1 } :
         /\ i <= Len(batch.file_paths)
         /\ batch' = [ batch EXCEPT
                         !.results = TryProcessorFunc(@, batch.file_paths, i),
                         !.done = @ \cup { i } ]
    /\ UNCHANGED << config, backend, chunk_size, call, main, results,
                    policy_violations, fatal_errors, exit_code, candidates,
                    resolved, engine,
                    calls >>

\* one turn of the outer loop of _process_sequential_buffered: a slice of
\* batch_size files
SequentialBuffered ==
    /\ batch.pc = "sequential_buffered"
    /\ \E i \in { Cardinality(batch.done) + 1 } :
         /\ i <= Len(batch.file_paths)
         /\ \E j \in { Min(i + batch.batch_size - 1, Len(batch.file_paths)) } :
              batch' = [ batch EXCEPT
                           !.results = ProcessSlice(@, batch.file_paths, i, j),
                           !.done = @ \cup (i .. j) ]
    /\ UNCHANGED << config, backend, chunk_size, call, main, results,
                    policy_violations, fatal_errors, exit_code, candidates,
                    resolved, engine,
                    calls >>

\* one turn of the loop of _process_parallel_limited: every file was
\* submitted, and as_completed yields the futures in the order they finish
ParallelLimited ==
    /\ batch.pc = "parallel_limited"
    /\ \E i \in (1 .. Len(batch.file_paths)) \ batch.done :
         batch' = [ batch EXCEPT
                      !.results = TryProcessorFunc(@, batch.file_paths, i),
                      !.done = @ \cup { i } ]
    /\ UNCHANGED << config, backend, chunk_size, call, main, results,
                    policy_violations, fatal_errors, exit_code, candidates,
                    resolved, engine,
                    calls >>

\* one turn of the loop of _process_sequential_optimized
SequentialOptimized ==
    /\ batch.pc = "sequential_optimized"
    /\ \E i \in { Cardinality(batch.done) + 1 } :
         /\ i <= Len(batch.file_paths)
         /\ batch' = [ batch EXCEPT
                         !.results = TryProcessorFunc(@, batch.file_paths, i),
                         !.done = @ \cup { i } ]
    /\ UNCHANGED << config, backend, chunk_size, call, main, results,
                    policy_violations, fatal_errors, exit_code, candidates,
                    resolved, engine,
                    calls >>

\* return results
ReturnResults ==
    /\ batch.pc \in Strategies
    /\ batch.done = 1 .. Len(batch.file_paths)
    /\ batch' = [ batch EXCEPT !.pc = "returned" ]
    /\ UNCHANGED << config, backend, chunk_size, call, main, results,
                    policy_violations, fatal_errors, exit_code, candidates,
                    resolved, engine,
                    calls >>

NextStrategies ==
    \/ ValidateBatch
    \/ SequentialStreaming
    \/ SequentialBuffered
    \/ ParallelLimited
    \/ SequentialOptimized
    \/ ReturnResults

SpecStrategies == InitStrategies /\ [][NextStrategies]_vars

\* ------------------------------------------------------------------------
\* Specification of the exit code: violations, fatal errors and results are
\* recorded in any order, as process_files, process_single_file and main
\* record them, and determine_exit_code is then called.
\* ------------------------------------------------------------------------
\* the number of entries recorded in each of the three lists
MaxRecorded == 2

\* a PDF whose name holds the text of the other violation
PATH_SCAN_NAMED == << "C", "a", "p", "s", " ", "e", "x", "c", "e", "e", "d", "e", "d", ".", "p", "d", "f" >>

\* the entries process_files appends to policy_violations
ViolationEntries ==
    { ViolationEntry(t, path) :
        t \in { CAPS_EXCEEDED_TEXT, IMAGE_ONLY_TEXT },
        path \in { PATH_SCAN, PATH_SCAN_NAMED } }

InitExit ==
    /\ config \in { c \in Configs : c.mask_format = "TOKEN" /\ c.min_confidence = 35 }
    /\ backend = "none"
    /\ engine = EngineWith(backend)
    /\ chunk_size = DefaultChunkSize
    /\ call = NoCall
    /\ main = [ pc |-> "processed" ]
    /\ results = << >>
    /\ policy_violations = << >>
    /\ fatal_errors = << >>
    /\ exit_code = NoExit
    /\ candidates = NoCandidates
    /\ resolved = << >>
    /\ batch = NoBatch
    /\ calls = NoCalls

\* self.policy_violations.append(...)
RecordViolation ==
    /\ main.pc = "processed"
    /\ Len(policy_violations) < MaxRecorded
    /\ \E entry \in ViolationEntries :
         policy_violations' = Append(policy_violations, entry)
    /\ UNCHANGED << config, backend, chunk_size, call, main, results,
                    fatal_errors, exit_code, candidates, resolved, engine,
                    batch,
                    calls >>

\* self.fatal_errors.append(...)
RecordFatalError ==
    /\ main.pc = "processed"
    /\ Len(fatal_errors) < MaxRecorded
    /\ fatal_errors' = Append(fatal_errors,
                              [ by |-> "process_files",
                                errors |-> << MSG_TEXT_ERROR >> ])
    /\ UNCHANGED << config, backend, chunk_size, call, main, results,
                    policy_violations, exit_code, candidates, resolved,
                    engine, batch,
                    calls >>

\* a result with its count of residual entities joins cli.results
RecordResult ==
    /\ main.pc = "processed"
    /\ Len(results) < MaxRecorded
    /\ \E n \in 0 .. 1 :
         results' = Append(results, [ residual_entities |-> n ])
    /\ UNCHANGED << config, backend, chunk_size, call, main,
                    policy_violations, fatal_errors, exit_code, candidates,
                    resolved, engine, batch,
                    calls >>

NextExit ==
    \/ RecordViolation
    \/ RecordFatalError
    \/ RecordResult
    \/ DetermineExitCode

SpecExit == InitExit /\ [][NextExit]_vars

\* ------------------------------------------------------------------------
\* Specification of the construction: __init__ runs its nested try blocks,
\* one action per block, each load succeeding or raising as the environment
\* decides; the constructed engine then answers one _detect_ml call.
\* ------------------------------------------------------------------------
InitLoad ==
    /\ config \in Configs
    /\ backend = "none"
    /\ engine = NewEngine
    /\ chunk_size = DefaultChunkSize
    /\ call = NoCall
    /\ main = NoMain
    /\ results = << >>
    /\ policy_violations = << >>
    /\ fatal_errors = << >>
    /\ exit_code = NoExit
    /\ candidates = NoCandidates
    /\ resolved = << >>
    /\ batch = NoBatch
    /\ calls = NoCalls

LoadLongTransformer ==
    /\ engine.pc = "longtransformer"
    /\ \E ok \in BOOLEAN : engine' = TryLongTransformer(engine, ok)
    /\ backend' = ActiveBackend(engine')
    /\ UNCHANGED << config, chunk_size, call, main, results, policy_violations,
                    fatal_errors, exit_code, candidates, resolved, batch,
                    calls >>

LoadCustom ==
    /\ engine.pc = "custom"
    /\ \E ok \in BOOLEAN : engine' = TryCustom(engine, ok)
    /\ backend' = ActiveBackend(engine')
    /\ UNCHANGED << config, chunk_size, call, main, results, policy_violations,
                    fatal_errors, exit_code, candidates, resolved, batch,
                    calls >>

LoadBertNer ==
    /\ engine.pc = "bert"
    /\ \E imported \in BOOLEAN, model \in BOOLEAN, tokenizer \in BOOLEAN :
         engine' = TryBertNer(engine, imported, model, tokenizer)
    /\ backend' = ActiveBackend(engine')
    /\ UNCHANGED << config, chunk_size, call, main, results, policy_violations,
                    fatal_errors, exit_code, candidates, resolved, batch,
                    calls >>

LoadBaseDeberta ==
    /\ engine.pc = "deberta"
    /\ \E model \in BOOLEAN, tokenizer \in BOOLEAN :
         engine' = TryBaseDeberta(engine, model, tokenizer)
    /\ backend' = ActiveBackend(engine')
    /\ UNCHANGED << config, chunk_size, call, main, results, policy_violations,
                    fatal_errors, exit_code, candidates, resolved, batch,
                    calls >>

DetectMl ==
    /\ engine.pc = "constructed"
    /\ call.kind = "none"
    /\ \E text \in Texts :
         \E raw \in RawsFor(text, backend) :
           call' = [ kind     |-> "_detect_ml",
                     text     |-> text,
                     raw      |-> raw,
                     entities |-> _detect_ml(text, ActiveBackend(engine), raw,
                                             NoFault) ]
    /\ UNCHANGED << config, backend, chunk_size, main, results,
                    policy_violations, fatal_errors, exit_code, candidates,
                    resolved, engine, batch,
                    calls >>

NextLoad ==
    \/ LoadLongTransformer
    \/ LoadCustom
    \/ LoadBertNer
    \/ LoadBaseDeberta
    \/ DetectMl

SpecLoad == InitLoad /\ [][NextLoad]_vars

\* ------------------------------------------------------------------------
\* Specification of concurrent calls: several detect_pii calls in progress
\* on one engine, their steps interleaved as the worker threads of
\* _process_parallel_limited interleave them.  PIIEntity objects live in a
\* heap and are named by their index in it: a list is a list of references,
\* and an update made in place is seen through every reference.
\* ------------------------------------------------------------------------
\* the calls in progress at once
MaxCalls == 2

CallIds == 1 .. MaxCalls

\* the texts the calls are made on
CallTexts == << TEXT_EMAIL_ZIP, TEXT_NAME_EMAIL >>

\* the engine of the calls: without a model backend under the default
\* thresholds, and with the one backend whose output the text determines,
\* under the wider band that takes in the confidence this backend assigns
CallEngines ==
    { [ backend |-> "none",
        config  |-> [ mask_format |-> "TOKEN", min_confidence |-> 35,
                      questionable_band_hi |-> 65 ] ],
      [ backend |-> "deberta",
        config  |-> [ mask_format |-> "TOKEN", min_confidence |-> 20,
                      questionable_band_hi |-> 85 ] ] }

\* the object o read through a reference
Ref(heap, o) == heap[o] @@ [ oid |-> o ]

Refs(heap, oids) == [ i \in DOMAIN oids |-> Ref(heap, oids[i]) ]

\* the fields of the object behind a reference
Deref(r) == [ f \in (DOMAIN r) \ { "oid" } |-> r[f] ]

Oids(refs) == [ i \in DOMAIN refs |-> refs[i].oid ]

Values(heap, oids) == [ i \in DOMAIN oids |-> heap[oids[i]] ]

\* an engine that hands out the object it already holds for an equal entity
RECURSIVE NewObjectsInterned(_, _)
NewObjectsInterned(heap, entities) ==
    IF Len(entities) = 0 THEN [ heap |-> heap, oids |-> << >> ]
    ELSE LET rest == NewObjectsInterned(heap, SubSeq(entities, 1, Len(entities) - 1))
             e    == entities[Len(entities)]
         IN  IF \E o \in DOMAIN rest.heap : rest.heap[o] = e
             THEN [ heap |-> rest.heap,
                    oids |-> Append(rest.oids,
                                    CHOOSE o \in DOMAIN rest.heap : rest.heap[o] = e) ]
             ELSE [ heap |-> Append(rest.heap, e),
                    oids |-> Append(rest.oids, Len(rest.heap) + 1) ]

\* PIIEntity(...): every construction makes a new object
NewObjects(heap, entities) ==
    [ heap |-> heap \o entities,
      oids |-> [ i \in DOMAIN entities |-> Len(heap) + i ] ]

\* the heap after the objects behind refs took the fields refs carry
Store(heap, refs) ==
    [ o \in DOMAIN heap |->
        IF \E i \in DOMAIN refs : refs[i].oid = o
        THEN Deref(refs[CHOOSE i \in DOMAIN refs : refs[i].oid = o])
        ELSE heap[o] ]

\* the locals of a call that has not run a statement yet
StartedCall(text) ==
    [ pc                    |-> "rule",
      text                  |-> text,
      rule_entities         |-> << >>,
      ml_entities           |-> << >>,
      all_entities          |-> << >>,
      questionable_entities |-> << >>,
      masked_content        |-> << >>,
      residual_entities     |-> << >> ]

\* the calls are interchangeable: they are numbered in the order of their
\* texts
InitCalls ==
    /\ batch = NoBatch
    /\ \E e \in CallEngines : config = e.config /\ backend = e.backend
    /\ engine = EngineWith(backend)
    /\ chunk_size = DefaultChunkSize
    /\ call = NoCall
    /\ main = NoMain
    /\ results = << >>
    /\ policy_violations = << >>
    /\ fatal_errors = << >>
    /\ exit_code = NoExit
    /\ candidates = NoCandidates
    /\ resolved = << >>
    /\ \E texts \in [ CallIds -> DOMAIN CallTexts ] :
         /\ \A c, d \in CallIds : c < d => texts[c] <= texts[d]
         /\ calls = [ pc   |-> "calls",
                      heap |-> << >>,
                      of   |-> [ c \in CallIds |-> StartedCall(CallTexts[texts[c]]) ] ]

\* rule_entities = self._detect_rule_based(text)
CallDetectRuleBased(c) ==
    /\ calls.pc = "calls"
    /\ calls.of[c].pc = "rule"
    /\ \E made \in { NewObjects(calls.heap, _detect_rule_based(calls.of[c].text)) } :
         calls' = [ calls EXCEPT !.heap = made.heap,
                                 !.of[c].rule_entities = made.oids,
                                 !.of[c].pc = "ml" ]
    /\ UNCHANGED << config, backend, chunk_size, call, main, results,
                    policy_violations, fatal_errors, exit_code, candidates,
                    resolved, engine, batch >>

\* ml_entities = self._detect_ml(text)
CallDetectMl(c) ==
    /\ calls.pc = "calls"
    /\ calls.of[c].pc = "ml"
    /\ \E made \in { NewObjects(calls.heap,
                                _detect_ml(calls.of[c].text, backend, << >>, NoFault)) } :
         calls' = [ calls EXCEPT !.heap = made.heap,
                                 !.of[c].ml_entities = made.oids,
                                 !.of[c].pc = "fuse" ]
    /\ UNCHANGED << config, backend, chunk_size, call, main, results,
                    policy_violations, fatal_errors, exit_code, candidates,
                    resolved, engine, batch >>

\* all_entities = self._fuse_and_resolve_entities(rule_entities, ml_entities)
CallFuse(c) ==
    /\ calls.pc = "calls"
    /\ calls.of[c].pc = "fuse"
    /\ calls' = [ calls EXCEPT
                    !.of[c].all_entities =
                        Oids(_fuse_and_resolve_entities(
                                 Refs(calls.heap, calls.of[c].rule_entities),
                                 Refs(calls.heap, calls.of[c].ml_entities))),
                    !.of[c].pc = "triage" ]
    /\ UNCHANGED << config, backend, chunk_size, call, main, results,
                    policy_violations, fatal_errors, exit_code, candidates,
                    resolved, engine, batch >>

\* questionable_entities = self._mark_questionable_entities(all_entities)
CallMarkQuestionable(c) ==
    /\ calls.pc = "calls"
    /\ calls.of[c].pc = "triage"
    /\ \E triage \in { _mark_questionable_entities(
                           Refs(calls.heap, calls.of[c].all_entities), config) } :
         calls' = [ calls EXCEPT
                      !.heap = Store(calls.heap, triage.entities),
                      !.of[c].questionable_entities = Oids(triage.questionable),
                      !.of[c].pc = "mask" ]
    /\ UNCHANGED << config, backend, chunk_size, call, main, results,
                    policy_violations, fatal_errors, exit_code, candidates,
                    resolved, engine, batch >>

\* masked_content = self._mask_text(text, all_entities)
CallMaskText(c) ==
    /\ calls.pc = "calls"
    /\ calls.of[c].pc = "mask"
    /\ \E masking \in { _mask_text(calls.of[c].text,
                                   Refs(calls.heap, calls.of[c].all_entities),
                                   config) } :
         calls' = [ calls EXCEPT
                      !.of[c].all_entities = Oids(masking.entities),
                      !.of[c].masked_content = masking.masked_text,
                      !.of[c].pc = "residual" ]
    /\ UNCHANGED << config, backend, chunk_size, call, main, results,
                    policy_violations, fatal_errors, exit_code, candidates,
                    resolved, engine, batch >>

\* residual_entities = self._validate_residual_pii(masked_content), and the
\* DetectionResult returned over the call's lists
CallValidateResidual(c) ==
    /\ calls.pc = "calls"
    /\ calls.of[c].pc = "residual"
    /\ \E made \in { NewObjects(calls.heap,
                                _validate_residual_pii(calls.of[c].masked_content)) } :
         calls' = [ calls EXCEPT !.heap = made.heap,
                                 !.of[c].residual_entities = made.oids,
                                 !.of[c].pc = "returned" ]
    /\ UNCHANGED << config, backend, chunk_size, call, main, results,
                    policy_violations, fatal_errors, exit_code, candidates,
                    resolved, engine, batch >>

NextCalls ==
    \E c \in CallIds :
        \/ CallDetectRuleBased(c)
        \/ CallDetectMl(c)
        \/ CallFuse(c)
        \/ CallMarkQuestionable(c)
        \/ CallMaskText(c)
        \/ CallValidateResidual(c)

SpecCalls == InitCalls /\ [][NextCalls]_vars

\* ------------------------------------------------------------------------
\* Specification of masking alone: one _mask_text call, statement by
\* statement, on an entity list as the custom backend can make fusion hand
\* it over (any type name, any span of the text, the empty value included)
\* ------------------------------------------------------------------------
\* the most entities in the list handed to _mask_text
MaxEntities == 3

MaskText == << "a", "b" >>

MaskSpans == { sp \in (0 .. Len(MaskText)) \X (0 .. Len(MaskText)) : sp[1] <= sp[2] }

MaskCandidates ==
    { PIIEntity(t, Slice(MaskText, sp[1], sp[2]), sp[1], sp[2], 80,
                "custom_pii_model", "auto_masked") :
        t \in { T_EMAIL, T_PERSON }, sp \in MaskSpans }

InitMask ==
    /\ batch = NoBatch
    /\ calls = NoCalls
    /\ config \in { c \in Configs : c.min_confidence = 35 }
    /\ backend = "custom"
    /\ engine = EngineWith(backend)
    /\ chunk_size = DefaultChunkSize
    /\ \E entities \in SeqsUpTo(MaskCandidates, MaxEntities) :
         call = [ kind          |-> "_mask_text",
                  pc            |-> "sort",
                  text          |-> MaskText,
                  given         |-> entities,
                  entities      |-> entities,
                  masked_text   |-> << >>,
                  token_counter |-> [ t \in { T_EMAIL, T_PERSON } |-> 0 ],
                  numbers       |-> << >>,
                  before        |-> << >> ]
    /\ main = NoMain
    /\ results = << >>
    /\ policy_violations = << >>
    /\ fatal_errors = << >>
    /\ exit_code = NoExit
    /\ candidates = NoCandidates
    /\ resolved = << >>

\* if not entities: return text
MaskNothing ==
    /\ call.kind = "_mask_text"
    /\ call.pc = "sort"
    /\ Len(call.entities) = 0
    /\ call' = [ call EXCEPT !.pc = "returned", !.masked_text = call.text ]
    /\ UNCHANGED << config, backend, chunk_size, main, results,
                    policy_violations, fatal_errors, exit_code, candidates,
                    resolved, engine, batch, calls >>

\* entities.sort(key=start_pos, reverse=True); masked_text = text;
\* token_counter = {}
MaskSort ==
    /\ call.kind = "_mask_text"
    /\ call.pc = "sort"
    /\ Len(call.entities) > 0
    /\ call' = [ call EXCEPT !.pc = "loop",
                             !.entities = SortDesc(call.entities),
                             !.masked_text = call.text ]
    /\ UNCHANGED << config, backend, chunk_size, main, results,
                    policy_violations, fatal_errors, exit_code, candidates,
                    resolved, engine, batch, calls >>

\* one iteration of the loop over entities; numbers keeps the counter each
\* entity was given, before the text each iteration started from
MaskEntity ==
    /\ call.kind = "_mask_text"
    /\ call.pc = "loop"
    /\ Len(call.numbers) < Len(call.entities)
    /\ \E entity \in { call.entities[Len(call.numbers) + 1] } :
         \E n \in { call.token_counter[entity.entity_type] + 1 } :
           call' = [ call EXCEPT
                       !.token_counter[entity.entity_type] = n,
                       !.numbers = Append(@, n),
                       !.before = Append(@, call.masked_text),
                       !.masked_text =
                           Slice(call.masked_text, 0, entity.start_pos)
                           \o MaskFor(entity, n, config)
                           \o Slice(call.masked_text, entity.end_pos,
                                    Len(call.masked_text)) ]
    /\ UNCHANGED << config, backend, chunk_size, main, results,
                    policy_violations, fatal_errors, exit_code, candidates,
                    resolved, engine, batch, calls >>

\* return masked_text
MaskReturn ==
    /\ call.kind = "_mask_text"
    /\ call.pc = "loop"
    /\ Len(call.numbers) = Len(call.entities)
    /\ call' = [ call EXCEPT !.pc = "returned" ]
    /\ UNCHANGED << config, backend, chunk_size, main, results,
                    policy_violations, fatal_errors, exit_code, candidates,
                    resolved, engine, batch, calls >>

NextMask == MaskNothing \/ MaskSort \/ MaskEntity \/ MaskReturn

SpecMask == InitMask /\ [][NextMask]_vars

\* ------------------------------------------------------------------------
\* C11: backend loading
\* ------------------------------------------------------------------------
LoadOrder == << "longtransformer", "custom", "bert", "deberta" >>

\* the backends whose try block ran to its end
Loaded(e) ==
    { b \in Range(e.attempted) : b \notin Range(e.failed) }

\* the backends whose attribute is set
Active(e) ==
    { b \in Range(LoadOrder) :
        \/ b = "longtransformer" /\ e.longtransformer_detector
        \/ b = "custom" /\ e.ml_detector
        \/ b = "bert" /\ e.fallback_ner_model
        \/ b = "deberta" /\ e.base_deberta }

\* C11: the backends are tried in the order LongTransformer, custom, BERT
\* NER, base DeBERTa, each only after every earlier one failed to load; a
\* constructed engine has at most one active backend, the first that loaded
\* if any loaded; and when all four failed to load the engine is still
\* constructed and its model detector returns the empty list for every text.
C11_BackendLoading ==
    /\ engine.attempted = SubSeq(LoadOrder, 1, Len(engine.attempted))
    /\ \A i \in 1 .. Len(engine.attempted) :
         \A j \in 1 .. (i - 1) :
           engine.attempted[j] \in Range(engine.failed)
    /\ engine.pc = "constructed" =>
         /\ Cardinality(Active(engine)) <= 1
         /\ Active(engine) = Loaded(engine)
         /\ Len(get_detection_methods(engine)) = 1 + Cardinality(Loaded(engine))
    /\ (engine.pc = "constructed" /\ Loaded(engine) = { }
          /\ call.kind = "_detect_ml") =>
         call.entities = << >>

\* ------------------------------------------------------------------------
\* C12: the Luhn examples
\* ------------------------------------------------------------------------
LuhnReturned(number) ==
    call.kind = "_luhn_check" /\ call.value = number

ValidatedTypes == { T_CREDIT_CARD, T_IP_ADDRESS, T_SSN }

PassesOwnValidator(entity_type, value) ==
    CASE entity_type = T_CREDIT_CARD -> _luhn_check(value)
      [] entity_type = T_IP_ADDRESS  -> _validate_ip(value)
      [] entity_type = T_SSN         -> _validate_ssn(value)

PatternOf(entity_type) ==
    patterns[CHOOSE k \in 1 .. Len(patterns) : patterns[k].entity_type = entity_type].pattern

\* the spans of the type's regex matches in the text
MatchesOf(entity_type, text) ==
    Range(FindIter(PatternOf(entity_type), text, 0))

\* the spans of the entities of the type in a list
SpansOf(entity_type, entities) ==
    { [ s |-> entities[i].start_pos, e |-> entities[i].end_pos ] :
        i \in { j \in 1 .. Len(entities) : entities[j].entity_type = entity_type } }

\* C13: for each validated type (CREDIT_CARD, IP_ADDRESS, SSN) the Pattern
\* Detector returns, without raising, exactly the regex matches of the type
\* whose value passes the type's validator, each with confidence 1.0 and
\* detection_method "rule_based"; for 4111-1111-1111-1112 it returns no
\* CREDIT_CARD entity.
C13_ValidatedMatchesOnly ==
    call.kind = "_detect_rule_based" =>
      /\ \A entity_type \in ValidatedTypes :
           /\ SpansOf(entity_type, call.returned)
                = { m \in MatchesOf(entity_type, call.value) :
                      PassesOwnValidator(entity_type,
                                         Slice(call.value, m.s, m.e)) }
           /\ \A i \in 1 .. Len(call.returned) :
                call.returned[i].entity_type = entity_type =>
                  /\ PassesOwnValidator(entity_type, call.returned[i].value)
                  /\ call.returned[i].value
                       = Slice(call.value, call.returned[i].start_pos,
                               call.returned[i].end_pos)
                  /\ call.returned[i].confidence = 100
                  /\ call.returned[i].detection_method = "rule_based"
      /\ call.value = CARD_DASHED_OFF =>
           SpansOf(T_CREDIT_CARD, call.returned) = { }

\* the regex matched the whole of 4111-1111-1111-1112 and nothing was emitted
C13_Witness ==
    /\ call.kind = "_detect_rule_based"
    /\ call.value = CARD_DASHED_OFF
    /\ [ s |-> 0, e |-> Len(CARD_DASHED_OFF) ] \in MatchesOf(T_CREDIT_CARD, call.value)
    /\ SpansOf(T_CREDIT_CARD, call.returned) = { }

\* ------------------------------------------------------------------------
\* C14: the credit-card validator
\* ------------------------------------------------------------------------
AllDigits(s) == \A i \in 1 .. Len(s) : s[i] \in Digit

\* C14: _luhn_check returns true exactly when the input, with its spaces and
\* dashes stripped, is a sequence of 13 to 19 digits whose Luhn checksum is 0
\* modulo 10; in particular it returns false when a non-digit character is
\* left after the stripping.
C14_CreditCardFailsClosed ==
    call.kind = "_luhn_check" =>
      LET stripped == RemoveChar(RemoveChar(call.value, " "), "-")
      IN  call.returned <=>
            /\ AllDigits(stripped)
            /\ Len(stripped) >= 13
            /\ Len(stripped) <= 19
            /\ LuhnSum(DigitsOf(stripped), 0) % 10 = 0

\* ------------------------------------------------------------------------
\* C15: the SSN validator
\* ------------------------------------------------------------------------
SsnReturned(ssn) ==
    call.kind = "_validate_ssn" /\ call.value = ssn

\* C15: _validate_ssn returns true exactly when the input, with its dashes
\* removed, is 9 digits whose first group is not 000, not 666 and does not
\* start with 9, whose middle group is not 00 and whose last group is not
\* 0000; 123-45-6789 is valid and 000-12-3456, 666-12-3456, 123-00-6789 and
\* 123-45-0000 are invalid.
C15_SsnValidExactly ==
    /\ call.kind = "_validate_ssn" =>
         LET clean == RemoveChar(call.value, "-")
         IN  call.returned <=>
               /\ Len(clean) = 9
               /\ AllDigits(clean)
               /\ SubSeq(clean, 1, 3) \notin { << "0", "0", "0" >>,
                                               << "6", "6", "6" >> }
               /\ clean[1] # "9"
               /\ SubSeq(clean, 4, 5) # << "0", "0" >>
               /\ SubSeq(clean, 6, 9) # << "0", "0", "0", "0" >>
    /\ SsnReturned(SSN_VALID) => call.returned
    /\ \A ssn \in { SSN_000, SSN_666, SSN_MIDDLE_00, SSN_LAST_0000 } :
         SsnReturned(ssn) => ~call.returned

\* ------------------------------------------------------------------------
\* C16: the end-to-end scenario
\* ------------------------------------------------------------------------
TypesIn(entities) ==
    { entities[i].entity_type : i \in 1 .. Len(entities) }

\* C16: with no model backend, detect_pii on "Contact John Smith at
\* john.smith@email.com or (555) 123-4567, SSN 123-45-6789." returns exactly
\* three entities, of types EMAIL, PHONE and SSN, the masked content "Contact
\* John Smith at [EMAIL_001] or [PHONE_001], SSN [SSN_001]." and no residual
\* entity.
C16_EndToEnd ==
    (call.kind = "detect_pii" /\ call.text = TEXT_CONTACT /\ backend = "none") =>
      /\ ~call.r.raised
      /\ Len(call.r.entities_found) = 3
      /\ TypesIn(call.r.entities_found) = { T_EMAIL, T_PHONE, T_SSN }
      /\ call.r.masked_content = TEXT_CONTACT_MASKED
      /\ call.r.residual_entities = << >>

\* ------------------------------------------------------------------------
\* C17: the entities option
\* ------------------------------------------------------------------------
\* C17: on an engine whose configuration lists a set of entity types, every
\* entity of entities_found has a type of the set, and a text in which only
\* types outside the set are found is returned unmasked.
C17_EntitiesOptionRestricts ==
    (call.kind = "detect_pii" /\ "entities" \in config.keys /\ ~call.r.raised) =>
      /\ TypesIn(call.r.entities_found) \subseteq config.entities
      /\ (TypesIn(call.r.rule_entities) \cup TypesIn(call.r.ml_entities))
           \cap config.entities = { }
           => call.r.masked_content = call.text

\* ------------------------------------------------------------------------
\* C18: malformed configurations
\* ------------------------------------------------------------------------
\* the types some part of the engine names
KnownTypes ==
    { patterns[k].entity_type : k \in 1 .. Len(patterns) }
    \cup structured_entities \cup free_text_entities \cup DefaultConfig.entities

InvertedBand(cfg) ==
    "questionable_band" \in cfg.keys
      /\ cfg.questionable_band_lo > cfg.questionable_band_hi

UnknownEntityType(cfg) ==
    "entities" \in cfg.keys /\ ~(cfg.entities \subseteq KnownTypes)

MissingThresholds(cfg) ==
    cfg.keys # { } /\ ~HasThresholds(cfg)

Malformed(cfg) ==
    InvertedBand(cfg) \/ UnknownEntityType(cfg) \/ MissingThresholds(cfg)

\* C18: a malformed configuration (inverted confidence band, unknown
\* requested entity type, or no validation thresholds) makes the
\* construction fail: no engine is ever constructed from it, so none whose
\* detect_pii raises or reports no questionable entity because of it.
C18_MalformedConfigRejected ==
    (call.kind \in { "constructed", "detect_pii" } /\ Malformed(call.given)) =>
      /\ engine.pc # "constructed"
      /\ call.kind = "detect_pii" => ~call.r.raised

\* ------------------------------------------------------------------------
\* C19: one result per file
\* ------------------------------------------------------------------------
\* the positions of the result list that belong to the file
EntriesOf(i) ==
    { k \in 1 .. Len(batch.results) : batch.results[k].file = i }

OneResultPerFile ==
    /\ Len(batch.results) = Len(batch.file_paths)
    /\ \A i \in 1 .. Len(batch.file_paths) :
         /\ Cardinality(EntriesOf(i)) = 1
         /\ \A k \in EntriesOf(i) :
              batch.results[k] = IF batch.file_paths[i].raises
                                 THEN ErrorEntry(i) ELSE ResultFor(i)

Recorded(violation_text) ==
    \E i \in 1 .. Len(policy_violations) :
      StartsWith(policy_violations[i], violation_text \o << ":" >>)

\* the violation type of --exit-on has a matching recorded violation
Matched(violation_type) ==
    \/ violation_type = "caps-exceeded" /\ Recorded(CAPS_EXCEEDED_TEXT)
    \/ violation_type = "image-only-pdf" /\ Recorded(IMAGE_ONLY_TEXT)
    \/ /\ violation_type = "residuals"
       /\ \E i \in 1 .. Len(results) : results[i].residual_entities > 0

\* C20: determine_exit_code returns 3 whenever fatal_errors is non-empty;
\* otherwise 2 if and only if some violation type listed in
\* exit_on_violations has a matching recorded violation; otherwise 0, so that
\* recorded violations of a type that is not listed never change the code.
C20_ExitCode ==
    exit_code.kind = "exit" =>
      exit_code.code =
        IF Len(fatal_errors) > 0 THEN EXIT_FATAL_ERROR
        ELSE IF \E v \in 1 .. Len(exit_code.exit_on_violations) :
                  Matched(exit_code.exit_on_violations[v])
             THEN EXIT_POLICY_VIOLATION
             ELSE EXIT_SUCCESS
\* ------------------------------------------------------------------------
\* C21: detect_pii is stateless across calls
\* ------------------------------------------------------------------------
CallReturned(c) == calls.pc = "calls" /\ calls.of[c].pc = "returned"

\* the objects a call holds a reference to
ObjectsOf(c) ==
    Range(calls.of[c].rule_entities) \cup Range(calls.of[c].ml_entities)
    \cup Range(calls.of[c].all_entities)
    \cup Range(calls.of[c].questionable_entities)
    \cup Range(calls.of[c].residual_entities)

\* the DetectionResult of a call made alone, for every text and engine
AloneResults ==
    [ t \in Range(CallTexts), e \in CallEngines |->
        detect_pii(t, e.config, e.backend, << >>, NoFault) ]

Alone(c) ==
    AloneResults[calls.of[c].text, [ backend |-> backend, config |-> config ]]

SameAsAlone(c) ==
    /\ Values(calls.heap, calls.of[c].all_entities) = Alone(c).entities_found
    /\ Values(calls.heap, calls.of[c].questionable_entities)
         = Alone(c).questionable_entities
    /\ Values(calls.heap, calls.of[c].residual_entities)
         = Alone(c).residual_entities
    /\ calls.of[c].masked_content = Alone(c).masked_content

\* C21: no step of a detect_pii call changes the engine (config, backend
\* handles); no PIIEntity object is referenced by two different calls; and
\* with no model backend every call returns, under every interleaving, what
\* it returns when it runs alone on its text.
C21_Stateless ==
    /\ [][ config' = config /\ backend' = backend /\ engine' = engine ]_vars
    /\ [](calls.pc = "calls" =>
            /\ \A c, d \in CallIds : c # d => ObjectsOf(c) \cap ObjectsOf(d) = { }
            /\ \A c \in CallIds :
                 (CallReturned(c) /\ backend = "none") => SameAsAlone(c))

\* with no model backend a call returned a non-empty result while another
\* call on the same text, begun before it returned, was still in progress
C21_Witness ==
    /\ calls.pc = "calls"
    /\ backend = "none"
    /\ CallReturned(1)
    /\ calls.of[2].pc \in { "triage", "mask" }
    /\ calls.of[1].text = calls.of[2].text
    /\ calls.of[1].all_entities # << >>
    /\ \E a \in ObjectsOf(1) : \E o \in ObjectsOf(2) : o < a

\* ------------------------------------------------------------------------
\* C22: token sequence numbers follow the masking order
\* ------------------------------------------------------------------------
MaskReturned == call.kind = "_mask_text" /\ call.pc = "returned"

\* the entities of the list that have the type of the i-th
SameType(i) ==
    { j \in DOMAIN call.entities :
        call.entities[j].entity_type = call.entities[i].entity_type }

PositiveWidths(list) == \A i \in DOMAIN list : list[i].start_pos < list[i].end_pos

\* the mask of the i-th entity is a numbered token
HasToken(i) ==
    MaskFor(call.entities[i], call.numbers[i], config)
        = Token(call.entities[i].entity_type, call.numbers[i])

TokenOf(i) == Token(call.entities[i].entity_type, call.numbers[i])

\* C22: among the k entities of one type in one mask call the numbers are
\* 1..k, an entity with a larger start_pos has the smaller number, number 1
\* goes to an entity of largest start_pos and number k to one of smallest
\* start_pos; and when the entities do not overlap, the tokens of one type
\* read from left to right in the masked text carry decreasing numbers.
C22_NumbersInMaskingOrder ==
    MaskReturned =>
      /\ \A i \in DOMAIN call.entities :
           /\ { call.numbers[j] : j \in SameType(i) } = 1 .. Cardinality(SameType(i))
           /\ \A j \in SameType(i) :
                call.entities[i].start_pos > call.entities[j].start_pos
                  => call.numbers[i] < call.numbers[j]
           /\ call.numbers[i] = 1
                => \A j \in SameType(i) :
                     call.entities[j].start_pos <= call.entities[i].start_pos
           /\ call.numbers[i] = Cardinality(SameType(i))
                => \A j \in SameType(i) :
                     call.entities[j].start_pos >= call.entities[i].start_pos
      /\ (PositiveWidths(call.entities) /\ NoTwoOverlap(call.entities))
           => \A i \in DOMAIN call.entities : \A j \in SameType(i) :
                (HasToken(i) /\ HasToken(j)
                   /\ call.entities[i].start_pos < call.entities[j].start_pos)
                  => /\ Find(call.masked_text, TokenOf(i)) # -1
                     /\ Find(call.masked_text, TokenOf(i))
                          < Find(call.masked_text, TokenOf(j))
                     /\ call.numbers[i] > call.numbers[j]

\* two entities of one type, handed over in reading order, were masked by
\* tokens: the left one reads 002 and the right one 001
C22_Witness ==
    /\ MaskReturned
    /\ Len(call.given) = 2
    /\ call.given[1].entity_type = call.given[2].entity_type
    /\ call.given[1].start_pos < call.given[2].start_pos
    /\ call.masked_text
         = Token(call.given[1].entity_type, 2) \o Token(call.given[1].entity_type, 1)

\* ------------------------------------------------------------------------
\* C23: position-stable masking
\* ------------------------------------------------------------------------
\* every entity's offsets lie in the text and cut its value out of it
ValidOffsets(text, list) ==
    \A i \in DOMAIN list :
        /\ 0 <= list[i].start_pos
        /\ list[i].start_pos <= list[i].end_pos
        /\ list[i].end_pos <= Len(text)
        /\ list[i].value = Slice(text, list[i].start_pos, list[i].end_pos)

\* the masked entities with the masks written for them, latest first
RECURSIVE MaskedLatestFirst(_)
MaskedLatestFirst(i) ==
    IF i = 0 THEN << >>
    ELSE << [ start_pos |-> call.entities[i].start_pos,
              end_pos   |-> call.entities[i].end_pos,
              mask      |-> MaskFor(call.entities[i], call.numbers[i], config) ] >>
         \o MaskedLatestFirst(i - 1)

\* stable insertion by (start_pos, end_pos) ascending
RECURSIVE InsertBySpan(_, _)
InsertBySpan(sorted, x) ==
    IF Len(sorted) = 0 THEN << x >>
    ELSE LET last == sorted[Len(sorted)]
         IN  IF \/ last.start_pos < x.start_pos
                \/ last.start_pos = x.start_pos /\ last.end_pos <= x.end_pos
             THEN Append(sorted, x)
             ELSE Append(InsertBySpan(SubSeq(sorted, 1, Len(sorted) - 1), x), last)

RECURSIVE SortBySpan(_)
SortBySpan(list) ==
    IF Len(list) = 0 THEN << >>
    ELSE InsertBySpan(SortBySpan(SubSeq(list, 1, Len(list) - 1)), list[Len(list)])

\* the walk over the source text from offset pos on: the characters up to
\* the next span copied, the span's mask emitted, the walk resumed behind it
RECURSIVE WalkFrom(_, _, _)
WalkFrom(text, spans, pos) ==
    IF Len(spans) = 0 THEN Slice(text, pos, Len(text))
    ELSE Slice(text, pos, Head(spans).start_pos)
         \o Head(spans).mask
         \o WalkFrom(text, Tail(spans), Head(spans).end_pos)

MaskReference ==
    WalkFrom(call.text, SortBySpan(MaskedLatestFirst(Len(call.numbers))), 0)

\* C23: for a non-overlapping entity list with valid offsets, every
\* iteration of the masking loop finds the entity's value at the entity's
\* offsets in the text it starts from, and the text returned is the
\* left-to-right reference.
C23_PositionStable ==
    ( /\ call.kind = "_mask_text"
      /\ NoTwoOverlap(call.given)
      /\ ValidOffsets(call.text, call.given) )
      => /\ \A i \in DOMAIN call.before :
              Slice(call.before[i], call.entities[i].start_pos,
                    call.entities[i].end_pos) = call.entities[i].value
         /\ call.pc = "returned" => call.masked_text = MaskReference

\* ------------------------------------------------------------------------
\* C24: two overlapping rule-based entities
\* ------------------------------------------------------------------------
\* the k-th candidate is rule-based and the loop compares it with a
\* rule-based entity of the resolved list
RuleMeetsRule(k) ==
    LET before == ResolvedAfter(AllSorted, k - 1)
        j      == FirstOverlap(before, AllSorted[k])
    IN  j # 0 /\ IsRule(AllSorted[k]) /\ IsRule(before[j])

\* a comes before b in the list the Pattern Detector handed over
HandedOverBefore(a, b) ==
    \E i, h \in DOMAIN candidates.rule_entities :
        /\ i < h
        /\ candidates.rule_entities[i] = a
        /\ candidates.rule_entities[h] = b

\* C24: when a rule-based candidate overlaps a rule-based entity of the
\* resolved list, a candidate of strictly higher confidence takes the
\* entity's place; otherwise the list stays as it is, and the entity that
\* stays starts no later than the candidate and, when both start at the same
\* offset, was handed over before it.  When every rule-based candidate has
\* confidence 1.0 the entity that stays is in the result of fusion.
C24_RuleAgainstRule ==
    Fused =>
      \A k \in DOMAIN AllSorted :
        LET before   == ResolvedAfter(AllSorted, k - 1)
            after    == ResolvedAfter(AllSorted, k)
            entity   == AllSorted[k]
            existing == before[FirstOverlap(before, entity)]
        IN  RuleMeetsRule(k) =>
              IF entity.confidence > existing.confidence
              THEN /\ \E i \in DOMAIN after : after[i] = entity
                   /\ \A i \in DOMAIN after : after[i] # existing
              ELSE /\ after = before
                   /\ existing.start_pos <= entity.start_pos
                   /\ (existing.start_pos = entity.start_pos /\ existing # entity)
                        => HandedOverBefore(existing, entity)
                   /\ (\A i \in DOMAIN candidates.rule_entities :
                         candidates.rule_entities[i].confidence = 100)
                        => \E i \in DOMAIN resolved : resolved[i] = existing

\* a rule-based candidate of higher confidence displaced a rule-based
\* entity, and a later rule-based candidate that starts where the winner
\* starts, of the same confidence, was dropped
C24_Witness ==
    /\ Fused
    /\ \E k \in DOMAIN AllSorted :
         /\ RuleMeetsRule(k)
         /\ \E i \in DOMAIN resolved : resolved[i] = AllSorted[k]
         /\ \E h \in DOMAIN AllSorted :
              /\ h > k
              /\ RuleMeetsRule(h)
              /\ AllSorted[h].start_pos = AllSorted[k].start_pos
              /\ AllSorted[h].confidence = AllSorted[k].confidence
              /\ AllSorted[h] # AllSorted[k]
              /\ \A i \in DOMAIN resolved : resolved[i] # AllSorted[h]

\* ------------------------------------------------------------------------
\* C25: a candidate and a second overlapping entity
\* ------------------------------------------------------------------------
\* the two spans share a character
SpansMeet(a, b) == a.start_pos < b.end_pos /\ b.start_pos < a.end_pos

\* fusion of the two lists admits, at some step, a candidate that meets an
\* entity of the resolved list other than the one it was compared with,
\* that entity staying in the list beside it
AdmitsUnresolved(rule_entities, ml_entities) ==
    LET all_entities == SortAsc(rule_entities \o ml_entities)
    IN  \E k \in DOMAIN all_entities :
          LET before == ResolvedAfter(all_entities, k - 1)
              after  == ResolvedAfter(all_entities, k)
              entity == all_entities[k]
              j      == FirstOverlap(before, entity)
          IN  /\ j # 0
              /\ \E i \in DOMAIN after : after[i] = entity
              /\ \E i \in DOMAIN before :
                   /\ i # j
                   /\ SpansMeet(entity, before[i])
                   /\ \E h \in DOMAIN after : after[h] = before[i]

\* C25: there are candidate lists (every candidate with start_pos < end_pos)
\* for which fusion admits a candidate that overlaps a second entity of the
\* resolved list without resolving it against that entity.
C25_SecondOverlapAdmitted ==
    \E rule_entities \in SeqsUpTo(RuleCandidates, MaxCandidates) :
      \E ml_entities \in SeqsUpTo(MlCandidates, MaxCandidates - Len(rule_entities)) :
        AdmitsUnresolved(rule_entities, ml_entities)

\* C25 (amended): every candidate (with start_pos < end_pos) meets at most
\* one entity of the resolved list at its step, and when it is admitted in
\* place of that entity it meets no entity of the list it joins.
C25_AtMostOneOverlap ==
    Fused =>
      \A k \in DOMAIN AllSorted :
        LET before == ResolvedAfter(AllSorted, k - 1)
            after  == ResolvedAfter(AllSorted, k)
            entity == AllSorted[k]
        IN  /\ Cardinality({ i \in DOMAIN before : SpansMeet(entity, before[i]) }) <= 1
            /\ \A i \in DOMAIN before :
                 SpansMeet(entity, before[i]) => i = FirstOverlap(before, entity)
            /\ (after # before)
                 => \A i \in DOMAIN after :
                      SpansMeet(entity, after[i]) => after[i] = entity

\* a candidate was admitted in place of the one entity it overlapped, into
\* a list that held another entity
C25_Witness ==
    /\ Fused
    /\ \E k \in DOMAIN AllSorted :
         LET before == ResolvedAfter(AllSorted, k - 1)
             after  == ResolvedAfter(AllSorted, k)
         IN  /\ FirstOverlap(before, AllSorted[k]) # 0
             /\ Len(before) >= 2
             /\ after # before
             /\ after[Len(after)] = AllSorted[k]

\* ------------------------------------------------------------------------
\* C26: post-processing of the model output
\* ------------------------------------------------------------------------
PunctuationOnly(v) ==
    \A i \in DOMAIN v : v[i] \in { ",", ".", ":", ";", "!", "?" } \cup Space

\* the trimmed value is empty, of length <= 1, pure punctuation or
\* whitespace, or all digits and shorter than 4 characters
IsNoise(value) ==
    LET v == Strip(value)
    IN  \/ Len(v) <= 1
        \/ PunctuationOnly(v)
        \/ IsDigitStr(v) /\ Len(v) < 4

\* the backend reported the entity's value under a label of the label mapping
HasMappedLabel(e) ==
    \E i \in DOMAIN call.raw :
        /\ call.raw[i].value = e.value
        /\ _map_ml_label_to_pii_type(call.raw[i].label) # << >>

\* C26: whatever the backend, no entity handed to fusion was reported under
\* an unmapped label, has a noise value or a non-PII sentinel type; a value
\* with '@' and '.' is typed EMAIL and an all-digit value of length >= 4 is
\* typed ID_NUM.
C26_PostProcessingEveryBackend ==
    (Returned /\ call.fault = NoFault) =>
      \A i \in DOMAIN call.r.ml_entities :
        LET e == call.r.ml_entities[i]
            v == Strip(e.value)
        IN  /\ ~IsNoise(e.value)
            /\ e.entity_type \notin NonPII
            /\ ("@" \in Range(v) /\ "." \in Range(v)) => e.entity_type = T_EMAIL
            /\ (IsDigitStr(v) /\ Len(v) >= 4) => e.entity_type = T_ID_NUM
            /\ backend \in { "longtransformer", "custom" } => HasMappedLabel(e)

\* ------------------------------------------------------------------------
\* C27: candidates left out of the result
\* ------------------------------------------------------------------------
\* C27: every candidate that is not in the list fusion returns overlaps an
\* entity of that list.
C27_DroppedAreCovered ==
    Fused =>
      \A k \in DOMAIN AllSorted :
        (\A i \in DOMAIN resolved : resolved[i] # AllSorted[k])
          => \E i \in DOMAIN resolved : SpansMeet(AllSorted[k], resolved[i])

\* ------------------------------------------------------------------------
\* C28: the order of the fused list and of entities_found
\* ------------------------------------------------------------------------
StrictlyAscending(list) ==
    \A i \in 1 .. (Len(list) - 1) : list[i].start_pos < list[i + 1].start_pos

Reversed(list) == [ i \in DOMAIN list |-> list[Len(list) + 1 - i] ]

\* some candidate took the place of an entity in a list that held another
SomeReplacement ==
    \E k \in DOMAIN AllSorted :
        LET before == ResolvedAfter(AllSorted, k - 1)
        IN  /\ FirstOverlap(before, AllSorted[k]) # 0
            /\ Len(before) >= 2
            /\ ResolvedAfter(AllSorted, k) # before

\* C28: the list fusion returns is strictly ascending by start_pos, and so
\* it stays through triage; entities_found is that list in the order the
\* descending sort of _mask_text left it in, which is the reverse order.
C28_FusedAscending ==
    /\ candidates.kind \in { "fused", "marked" } => StrictlyAscending(resolved)
    /\ candidates.kind = "masked" =>
         /\ StrictlyAscending(call.all_entities)
         /\ call.entities_found = Reversed(call.all_entities)
         /\ resolved = call.entities_found

\* a list of two entities or more, one of them appended in place of an
\* entity it displaced, was returned by fusion and sorted by _mask_text
C28_Witness ==
    /\ candidates.kind = "masked"
    /\ Len(call.entities_found) >= 2
    /\ SomeReplacement
    /\ call.entities_found # call.all_entities

\* ------------------------------------------------------------------------
\* C29: the default band and the fixed confidences
\* ------------------------------------------------------------------------
DefaultThresholds == config.min_confidence = 35 /\ config.questionable_band_hi = 65

\* the confidence the engine assigns to the entities of a detection method
FixedConfidence(detection_method) ==
    CASE detection_method = "rule_based" -> 100
      [] detection_method = "longtransformer_pii" -> 85
      [] detection_method = "custom_pii_model" -> 80
      [] detection_method = "bert_ner" -> 80
      [] detection_method = "base_deberta_heuristic" -> 30

\* C29: every entity carries the fixed confidence of its detection method,
\* and under the default thresholds questionable_entities is empty and no
\* entity of entities_found has status "questionable".
C29_NothingQuestionableByDefault ==
    Returned =>
      /\ \A i \in DOMAIN call.r.entities_found :
           call.r.entities_found[i].confidence
             = FixedConfidence(call.r.entities_found[i].detection_method)
      /\ DefaultThresholds =>
           /\ call.r.questionable_entities = << >>
           /\ \A i \in DOMAIN call.r.entities_found :
                call.r.entities_found[i].status # "questionable"

\* under the default thresholds a call returned a rule-based entity and an
\* entity of a model backend, none of them questionable
C29_Witness ==
    /\ Returned
    /\ DefaultThresholds
    /\ \E i \in DOMAIN call.r.entities_found :
         call.r.entities_found[i].detection_method = "rule_based"
    /\ \E i \in DOMAIN call.r.entities_found :
         call.r.entities_found[i].confidence < 100
    /\ call.r.questionable_entities = << >>

\* ------------------------------------------------------------------------
\* C30: streaming against standard processing of a text file
\* ------------------------------------------------------------------------
\* _process_text_file_standard: one detect_pii call on the whole content
Standard(file) == detect_pii(file.content, config, backend, << >>, NoFault)

ValuesOf(entities) == { entities[i].value : i \in DOMAIN entities }

\* the file was processed without an error
ProcessedText(i) ==
    /\ main.files[i].kind = "text"
    /\ main.processed[i].kind = "result"
    /\ main.processed[i].errors = << >>

Streamed(i) == ProcessedText(i) /\ Len(main.processed[i].units) > 1

\* C30: a text file processed in streaming mode has the masked content and
\* the set of detected values that one detect_pii call on its whole content
\* gives.
C30_StreamingEqualsStandard ==
    main.pc # "none" =>
      \A i \in DOMAIN main.processed :
        Streamed(i) =>
          /\ main.processed[i].masked_content = Standard(main.files[i]).masked_content
          /\ ValuesOf(main.processed[i].entities_found)
               = ValuesOf(Standard(main.files[i]).entities_found)

====
